---- MODULE Spec2Model ----
(***************************************************************************)
(* Sprite Puppet Animator: the animation evaluation engine                 *)
(* (utils/animation.js) and the editor store (stores/useStore.js with      *)
(* undo/redo and load/save), modelled as state machines.                   *)
(*                                                                         *)
(* JavaScript numbers are modelled as exact rationals <<num, den>> with    *)
(* den > 0 in lowest terms; keyframe, joint and layer fields are integers. *)
(***************************************************************************)
EXTENDS Integers, Sequences, FiniteSets, TLC

VARIABLES
    keyframes,       \* argument `keyframes` of the pose evaluator
    joints,          \* argument `joints` of the pose evaluator / resolver
    currentFrame,    \* argument `currentFrame` of the pose evaluator
    jointPositions,  \* result of getAllJointPositionsAtFrame (the pose)
    layer,           \* argument `layer` of the layer transform resolver
    transform,       \* result of getLayerTransformFromJoints
    pc,              \* position of the caller: "input", "posed", "resolved"
    character,       \* store: character {id, name, images, layers, joints, bones}
    currentMotion,   \* store: currentMotion {id, name, fps, frameCount, loop, keyframes}
    project,         \* store: project {id, name, saved}
    history,         \* store: history {past, future} of snapshots
    selection,       \* store: selection {layers, joints, bones, keyframes}
    timeline,        \* store: timeline {currentFrame, isPlaying, isLooping}
    currentStep,     \* store: currentStep
    nextId,          \* number of the next identifier uuidv4() returns
    ops,             \* number of store operations performed so far
    exportArgs,      \* export: arguments {character, motion, options} of captureAllFrames
    loading,         \* export: ids of the layers whose loadImage promise is pending
    imageCache,      \* export: imageCache, layer id -> loaded image
    boundingBox,     \* export: boundingBox of captureAllFrames
    loopFrame,       \* export: loop variable `frame` of captureAllFrames
    frames,          \* export: array `frames` of captureAllFrames
    log,             \* export: calls and callbacks in the order they ran
    showExportModal, \* ui.showExportModal
    lerpCall,        \* arguments and result of one lerp call in double arithmetic
    playback         \* the playback timer of the timeline and what its callback closed over

auxVars == <<lerpCall, playback>>
captureVars == <<exportArgs, loading, imageCache, boundingBox, loopFrame, frames, log,
                 showExportModal, auxVars>>
evalVars == <<keyframes, joints, currentFrame, jointPositions, layer, transform, pc,
              captureVars>>
storeVars == <<character, currentMotion, project, history, selection, timeline,
               currentStep, nextId, ops>>
vars == <<evalVars, storeVars>>

(***************************************************************************)
(* Bounds                                                                  *)
(***************************************************************************)
MaxFrame == 2
MaxKeyframes == 2
MaxOps == 3

(***************************************************************************)
(* Rational arithmetic                                                     *)
(***************************************************************************)
Abs(n) == IF n < 0 THEN -n ELSE n

RECURSIVE GCD(_, _)
GCD(a, b) == IF b = 0 THEN a ELSE GCD(b, a % b)

Rat(n, d) ==
    LET s == IF d < 0 THEN -1 ELSE 1
        g == GCD(Abs(n), Abs(d))
    IN  <<(s * n) \div g, (s * d) \div g>>

R(n) == <<n, 1>>
RAdd(a, b) == Rat(a[1] * b[2] + b[1] * a[2], a[2] * b[2])
RSub(a, b) == Rat(a[1] * b[2] - b[1] * a[2], a[2] * b[2])
RMul(a, b) == Rat(a[1] * b[1], a[2] * b[2])
RDiv(a, b) == Rat(a[1] * b[2], a[2] * b[1])
RLess(a, b) == a[1] * b[2] < b[1] * a[2]
RMin(a, b) == IF RLess(b, a) THEN b ELSE a
RMax(a, b) == IF RLess(a, b) THEN b ELSE a
RSq(a) == RMul(a, a)
RCube(a) == RMul(a, RMul(a, a))
RQuart(a) == RMul(RSq(a), RSq(a))

(***************************************************************************)
(* IEEE-754 binary64 arithmetic (the JavaScript Number type)               *)
(*                                                                         *)
(* A natural number of any size is a sequence of limbs, least significant  *)
(* first, without leading zero limbs.  A finite double is                  *)
(* [s, m, e] with value (-1)^s * m * 2^e, where m has exactly Precision    *)
(* bits; zero is FZero.  Every operation computes the exact result and     *)
(* rounds it to nearest, ties to even.  The model's values stay far from   *)
(* overflow and from the subnormal range, and carry no NaN.                *)
(***************************************************************************)
LimbBits == 15
LimbBase == 32768
Precision == 53

Limb(a, i) == IF i <= Len(a) THEN a[i] ELSE 0

RECURSIVE BTrim(_)
BTrim(a) ==
    IF a = <<>> THEN a
    ELSE IF a[Len(a)] = 0 THEN BTrim(SubSeq(a, 1, Len(a) - 1))
    ELSE a

RECURSIVE BFromInt(_)
BFromInt(n) == IF n = 0 THEN <<>> ELSE <<n % LimbBase>> \o BFromInt(n \div LimbBase)

RECURSIVE BAddFrom(_, _, _, _)
BAddFrom(a, b, i, carry) ==
    IF i > Len(a) /\ i > Len(b)
    THEN IF carry = 0 THEN <<>> ELSE <<carry>>
    ELSE <<(Limb(a, i) + Limb(b, i) + carry) % LimbBase>>
         \o BAddFrom(a, b, i + 1, (Limb(a, i) + Limb(b, i) + carry) \div LimbBase)

BAdd(a, b) == BTrim(BAddFrom(a, b, 1, 0))

\* a - b for a >= b
RECURSIVE BSubFrom(_, _, _, _)
BSubFrom(a, b, i, borrow) ==
    IF i > Len(a) THEN <<>>
    ELSE <<(a[i] - Limb(b, i) - borrow + LimbBase) % LimbBase>>
         \o BSubFrom(a, b, i + 1, IF a[i] - Limb(b, i) - borrow < 0 THEN 1 ELSE 0)

BSub(a, b) == BTrim(BSubFrom(a, b, 1, 0))

RECURSIVE BLessAt(_, _, _)
BLessAt(a, b, i) ==
    IF i = 0 THEN FALSE
    ELSE IF a[i] # b[i] THEN a[i] < b[i]
    ELSE BLessAt(a, b, i - 1)

BLess(a, b) == IF Len(a) # Len(b) THEN Len(a) < Len(b) ELSE BLessAt(a, b, Len(a))

\* a * n for a single limb n
RECURSIVE BMulSmallFrom(_, _, _, _)
BMulSmallFrom(a, n, i, carry) ==
    IF i > Len(a)
    THEN IF carry = 0 THEN <<>> ELSE <<carry>>
    ELSE <<(a[i] * n + carry) % LimbBase>>
         \o BMulSmallFrom(a, n, i + 1, (a[i] * n + carry) \div LimbBase)

BMulSmall(a, n) == BTrim(BMulSmallFrom(a, n, 1, 0))

\* a * LimbBase
BShiftLimb(a) == IF a = <<>> THEN a ELSE <<0>> \o a

RECURSIVE BMul(_, _)
BMul(a, b) ==
    IF b = <<>> THEN <<>>
    ELSE BAdd(BMulSmall(a, Head(b)), BShiftLimb(BMul(a, Tail(b))))

\* a * 2^k and a \div 2^k
BShl(a, k) ==
    IF a = <<>> THEN a
    ELSE [i \in 1..(k \div LimbBits) |-> 0] \o BMulSmall(a, 2 ^ (k % LimbBits))

BShrBits(a, r) ==
    BTrim([i \in 1..Len(a) |->
              (a[i] \div (2 ^ r)) + (Limb(a, i + 1) % (2 ^ r)) * (2 ^ (LimbBits - r))])

BShr(a, k) == BShrBits(SubSeq(a, (k \div LimbBits) + 1, Len(a)), k % LimbBits)

BBit(a, i) == (Limb(a, (i \div LimbBits) + 1) \div (2 ^ (i % LimbBits))) % 2
BOdd(a) == BBit(a, 0) = 1
BLowZero(a, k) == BShl(BShr(a, k), k) = a

BBitLen(a) ==
    IF a = <<>> THEN 0
    ELSE (Len(a) - 1) * LimbBits
         + (CHOOSE k \in 1..LimbBits : 2 ^ (k - 1) <= a[Len(a)] /\ a[Len(a)] < 2 ^ k)

\* Long division, one limb of n at a time from the top, for d whose top limb
\* has its top bit set.  The quotient digit is at most two below the estimate
\* that the top limbs of the running remainder give.
BDivEstimate(cur, d) ==
    IF (Limb(cur, Len(d) + 1) * LimbBase + Limb(cur, Len(d))) \div d[Len(d)] < LimbBase
    THEN (Limb(cur, Len(d) + 1) * LimbBase + Limb(cur, Len(d))) \div d[Len(d)]
    ELSE LimbBase - 1

BDivDigit(cur, d, est) ==
    CHOOSE x \in (IF est < 2 THEN 0 ELSE est - 2)..est :
        /\ ~BLess(cur, BMulSmall(d, x))
        /\ BLess(cur, BMulSmall(d, x + 1))

BDivEmit(q, cur, d, digit) ==
    <<BTrim(<<digit>> \o q), BSub(cur, BMulSmall(d, digit))>>

BDivCur(q, cur, d) == BDivEmit(q, cur, d, BDivDigit(cur, d, BDivEstimate(cur, d)))

\* up is <<quotient, remainder>> of the limbs above the one brought down
BDivStep(up, limb, d) ==
    IF up[2] = <<>> /\ limb = 0
    THEN <<BShiftLimb(up[1]), <<>>>>
    ELSE BDivCur(up[1], BTrim(<<limb>> \o up[2]), d)

\* <<quotient, remainder>> of the number made of limbs i.. of n by d
RECURSIVE BDivFrom(_, _, _)
BDivFrom(n, d, i) ==
    IF i > Len(n) THEN <<<<>>, <<>>>>
    ELSE BDivStep(BDivFrom(n, d, i + 1), n[i], d)

BDivUnshift(qr, k) == <<qr[1], BShr(qr[2], k)>>
BDivShifted(n, d, k) == BDivUnshift(BDivFrom(BShl(n, k), BShl(d, k), 1), k)

\* <<quotient, remainder>> of n by d # 0
BDivMod(n, d) == BDivShifted(n, d, (LimbBits - (BBitLen(d) % LimbBits)) % LimbBits)

FZero == [s |-> 0, m |-> <<>>, e |-> 0]

\* q with at most one bit more than the precision
FPack(s, q, E) ==
    IF BBitLen(q) > Precision
    THEN [s |-> s, m |-> BShr(q, 1), e |-> E + 1]
    ELSE [s |-> s, m |-> q, e |-> E]

\* M loses its k low bits: up when they are more than half a unit of q, or
\* exactly half with q odd
FRoundUp(M, k, q) == BBit(M, k - 1) = 1 /\ (~BLowZero(M, k - 1) \/ BOdd(q))

FRoundOff(s, M, E, k) ==
    FPack(s, IF FRoundUp(M, k, BShr(M, k)) THEN BAdd(BShr(M, k), <<1>>) ELSE BShr(M, k),
          E + k)

\* the double nearest to (-1)^s * M * 2^E, ties to even
FRound(s, M, E) ==
    IF M = <<>> THEN FZero
    ELSE IF BBitLen(M) <= Precision
         THEN [s |-> s, m |-> BShl(M, Precision - BBitLen(M)),
               e |-> E - (Precision - BBitLen(M))]
    ELSE FRoundOff(s, M, E, BBitLen(M) - Precision)

FNeg(a) == IF a = FZero THEN a ELSE [a EXCEPT !.s = 1 - a.s]

\* (-1)^sa * A * 2^e + (-1)^sb * B * 2^e
FAddAligned(sa, A, sb, B, e) ==
    IF sa = sb THEN FRound(sa, BAdd(A, B), e)
    ELSE IF BLess(A, B) THEN FRound(sb, BSub(B, A), e)
    ELSE FRound(sa, BSub(A, B), e)

FAddAt(a, b, e) == FAddAligned(a.s, BShl(a.m, a.e - e), b.s, BShl(b.m, b.e - e), e)

FAdd(a, b) ==
    IF a = FZero THEN b
    ELSE IF b = FZero THEN a
    ELSE FAddAt(a, b, IF a.e < b.e THEN a.e ELSE b.e)

FSub(a, b) == FAdd(a, FNeg(b))

FMul(a, b) ==
    IF a = FZero \/ b = FZero THEN FZero
    ELSE FRound((a.s + b.s) % 2, BMul(a.m, b.m), a.e + b.e)

\* the quotient with its lowest bit set when the division left a remainder
FSticky(qr) == IF qr[2] = <<>> \/ BOdd(qr[1]) THEN qr[1] ELSE BAdd(qr[1], <<1>>)

\* a / b for b # 0: the quotient carries five bits beyond the precision
FDiv(a, b) ==
    IF a = FZero THEN FZero
    ELSE FRound((a.s + b.s) % 2, FSticky(BDivMod(BShl(a.m, Precision + 5), b.m)),
                a.e - b.e - (Precision + 5))

FNegative(a) == a # FZero /\ a.s = 1
FLess(a, b) == FNegative(FSub(a, b))
FMin(a, b) == IF FLess(b, a) THEN b ELSE a
FMax(a, b) == IF FLess(a, b) THEN b ELSE a

\* the Number an integer literal n denotes, and the one a decimal literal n / d denotes
FInt(n) == FRound(IF n < 0 THEN 1 ELSE 0, BFromInt(IF n < 0 THEN -n ELSE n), 0)
FDec(n, d) == FDiv(FInt(n), FInt(d))

(***************************************************************************)
(* Easing catalog                                                          *)
(***************************************************************************)
EasingNames ==
    {"linear", "easeIn", "easeInCubic", "easeInQuart", "easeOut",
     "easeOutCubic", "easeOutQuart", "easeInOut", "easeInOutCubic",
     "easeOutElastic", "easeOutBounce"}

\* Math.pow(2, -10 t) * Math.sin((10 t - 0.75) * c4) + 1 for 0 < t < 1,
\* in millionths, rounded to the nearest millionth.
ElasticMicro ==
    <<1, 2>> :> 1015625 @@
    <<1, 3>> :> 923999 @@ <<2, 3>> :> 998291 @@
    <<1, 4>> :> 911612 @@ <<3, 4>> :> 1005524 @@
    <<1, 5>> :> 1125000 @@ <<2, 5>> :> 1031250 @@
    <<3, 5>> :> 984375 @@ <<4, 5>> :> 1001953 @@
    <<1, 10>> :> 1250000 @@ <<3, 10>> :> 875000 @@
    <<7, 10>> :> 1003906 @@ <<9, 10>> :> 998047

easeOutElastic(t) ==
    IF t = R(0) THEN R(0)
    ELSE IF t = R(1) THEN R(1)
    ELSE Rat(ElasticMicro[t], 1000000)

n1 == <<121, 16>>
d1 == <<11, 4>>

easeOutBounce(t) ==
    IF RLess(t, RDiv(R(1), d1)) THEN RMul(n1, RSq(t))
    ELSE IF RLess(t, RDiv(R(2), d1))
         THEN RAdd(RMul(n1, RSq(RSub(t, RDiv(<<3, 2>>, d1)))), <<3, 4>>)
    ELSE IF RLess(t, RDiv(<<5, 2>>, d1))
         THEN RAdd(RMul(n1, RSq(RSub(t, RDiv(<<9, 4>>, d1)))), <<15, 16>>)
    ELSE RAdd(RMul(n1, RSq(RSub(t, RDiv(<<21, 8>>, d1)))), <<63, 64>>)

linear_Squared(t) == RSq(t)

linear(t) == t

easingFunctions(name, t) ==
    CASE name = "linear" -> linear(t)
      [] name = "easeIn" -> RSq(t)
      [] name = "easeInCubic" -> RCube(t)
      [] name = "easeInQuart" -> RQuart(t)
      [] name = "easeOut" -> RSub(R(1), RSq(RSub(R(1), t)))
      [] name = "easeOutCubic" -> RSub(R(1), RCube(RSub(R(1), t)))
      [] name = "easeOutQuart" -> RSub(R(1), RQuart(RSub(R(1), t)))
      [] name = "easeInOut" ->
            IF RLess(t, <<1, 2>>)
            THEN RMul(R(2), RSq(t))
            ELSE RSub(R(1), RDiv(RSq(RAdd(RMul(R(-2), t), R(2))), R(2)))
      [] name = "easeInOutCubic" ->
            IF RLess(t, <<1, 2>>)
            THEN RMul(R(4), RCube(t))
            ELSE RSub(R(1), RDiv(RCube(RAdd(RMul(R(-2), t), R(2))), R(2)))
      [] name = "easeOutElastic" -> easeOutElastic(t)
      [] name = "easeOutBounce" -> easeOutBounce(t)

\* lerp(start, end, t, easing): an unknown easing name falls back to linear.
lerp(start, end, t, easing) ==
    LET easingFn == IF easing \in EasingNames THEN easing ELSE "linear"
        easedT == easingFunctions(easingFn, RMax(R(0), RMin(R(1), t)))
    IN  RAdd(start, RMul(RSub(end, start), easedT))

(***************************************************************************)
(* The easing catalog and lerp in double arithmetic                        *)
(***************************************************************************)
F1 == FInt(1)
F2 == FInt(2)
n1_f64 == FDec(75625, 10000)
d1_f64 == FDec(275, 100)

\* Math.pow(x, n) for n = 2, 3, 4.  Every base the catalog hands to Math.pow at
\* t = 0 and t = 1 is 0 or 1, where the power is exact.
RECURSIVE FPow(_, _)
FPow(x, n) == IF n = 1 THEN x ELSE FMul(FPow(x, n - 1), x)

\* The value for 0 < t < 1 goes through Math.pow and Math.sin, whose results
\* the language leaves to the implementation; no call below has such a t.
easeOutElastic_f64(t) ==
    CASE t = FZero -> FZero
      [] t = F1 -> F1

\* n1 * (t -= shift) * t + offset, with t already shifted
Bounce(t, offset) == FAdd(FMul(FMul(n1_f64, t), t), offset)

easeOutBounce_f64(t) ==
    IF FLess(t, FDiv(F1, d1_f64)) THEN FMul(FMul(n1_f64, t), t)
    ELSE IF FLess(t, FDiv(F2, d1_f64))
         THEN Bounce(FSub(t, FDiv(FDec(15, 10), d1_f64)), FDec(75, 100))
    ELSE IF FLess(t, FDiv(FDec(25, 10), d1_f64))
         THEN Bounce(FSub(t, FDiv(FDec(225, 100), d1_f64)), FDec(9375, 10000))
    ELSE Bounce(FSub(t, FDiv(FDec(2625, 1000), d1_f64)), FDec(984375, 1000000))

easingFunctions_f64(name, t) ==
    CASE name = "linear" -> t
      [] name = "easeIn" -> FMul(t, t)
      [] name = "easeInCubic" -> FMul(FMul(t, t), t)
      [] name = "easeInQuart" -> FMul(FMul(FMul(t, t), t), t)
      [] name = "easeOut" -> FSub(F1, FMul(FSub(F1, t), FSub(F1, t)))
      [] name = "easeOutCubic" -> FSub(F1, FPow(FSub(F1, t), 3))
      [] name = "easeOutQuart" -> FSub(F1, FPow(FSub(F1, t), 4))
      [] name = "easeInOut" ->
            IF FLess(t, FDec(5, 10))
            THEN FMul(FMul(F2, t), t)
            ELSE FSub(F1, FDiv(FPow(FAdd(FMul(FInt(-2), t), F2), 2), F2))
      [] name = "easeInOutCubic" ->
            IF FLess(t, FDec(5, 10))
            THEN FMul(FMul(FMul(FInt(4), t), t), t)
            ELSE FSub(F1, FDiv(FPow(FAdd(FMul(FInt(-2), t), F2), 3), F2))
      [] name = "easeOutElastic" -> easeOutElastic_f64(t)
      [] name = "easeOutBounce" -> easeOutBounce_f64(t)

\* an unknown easing name falls back to linear
lerp_f64(start, end, t, easing) ==
    FAdd(start,
         FMul(FSub(end, start),
              easingFunctions_f64(IF easing \in EasingNames THEN easing ELSE "linear",
                                  FMax(FZero, FMin(F1, t)))))

(***************************************************************************)
(* JavaScript helpers                                                      *)
(***************************************************************************)
Null == "null"

\* v || d on a number: the only falsy number of the model is 0.
NumOr(v, d) == IF v = 0 THEN d ELSE v

\* v || d on a string or null: null/undefined and "" are falsy.
StrOr(v, d) == IF v \in {Null, ""} THEN d ELSE v

\* Array.prototype.sort((a, b) => a.frameNumber - b.frameNumber): stable.
RECURSIVE InsertByFrame(_, _)
InsertByFrame(s, e) ==
    IF s = <<>> THEN <<e>>
    ELSE IF s[Len(s)].frameNumber <= e.frameNumber THEN Append(s, e)
    ELSE Append(InsertByFrame(SubSeq(s, 1, Len(s) - 1), e), s[Len(s)])

RECURSIVE SortByFrame(_)
SortByFrame(s) ==
    IF s = <<>> THEN <<>>
    ELSE InsertByFrame(SortByFrame(SubSeq(s, 1, Len(s) - 1)), s[Len(s)])

Min(S) == CHOOSE m \in S : \A n \in S : m <= n
Max(S) == CHOOSE m \in S : \A n \in S : n <= m

(***************************************************************************)
(* Skeleton pose evaluator                                                 *)
(***************************************************************************)
FindSegment_FirstPair(jointKeyframes, frame) ==
    [prevKeyframe |-> jointKeyframes[1], nextKeyframe |-> jointKeyframes[2]]

\* The bracketing pair searched by the for loop; defaults to the first two.
FindSegment(jointKeyframes, frame) ==
    LET found == {i \in 1..(Len(jointKeyframes) - 1) :
                     /\ frame >= jointKeyframes[i].frameNumber
                     /\ frame < jointKeyframes[i + 1].frameNumber}
        i == IF found = {} THEN 1 ELSE Min(found)
    IN  [prevKeyframe |-> jointKeyframes[i], nextKeyframe |-> jointKeyframes[i + 1]]

Progress_Remaining(prevKeyframe, nextKeyframe, frame) ==
    LET frameDiff == nextKeyframe.frameNumber - prevKeyframe.frameNumber
    IN  IF frameDiff > 0
        THEN Rat(nextKeyframe.frameNumber - frame, frameDiff)
        ELSE R(0)

Progress(prevKeyframe, nextKeyframe, frame) ==
    LET frameDiff == nextKeyframe.frameNumber - prevKeyframe.frameNumber
    IN  IF frameDiff > 0
        THEN Rat(frame - prevKeyframe.frameNumber, frameDiff)
        ELSE R(0)

SegmentEasing_OfDeparture(prevKeyframe, nextKeyframe) == StrOr(prevKeyframe.easing, "linear")

SegmentEasing(prevKeyframe, nextKeyframe) == StrOr(nextKeyframe.easing, "linear")

KeyframesOfJoint_Unfiltered(kfs, jointId) == SortByFrame(kfs)

\* keyframes.filter(kf => kf.jointId === jointId).sort(by frameNumber)
KeyframesOfJoint(kfs, jointId) ==
    SortByFrame(SelectSeq(kfs, LAMBDA kf : kf.jointId = jointId))

BeforeFirst(frame, firstKeyframe) == frame <= firstKeyframe.frameNumber
AfterLast_OnlyAt(frame, lastKeyframe) == frame = lastKeyframe.frameNumber

AfterLast(frame, lastKeyframe) == frame >= lastKeyframe.frameNumber

KeyframePose(kf) ==
    [x |-> R(kf.x), y |-> R(kf.y), rotation |-> R(NumOr(kf.rotation, 0))]

\* Reading .frameNumber of jointKeyframes[1] on a one-element array throws.
TypeError == [error |-> "TypeError"]

getJointPositionAtFrame(jointId, frame, kfs, originalJoint) ==
    LET jointKeyframes == KeyframesOfJoint(kfs, jointId)
    IN  IF Len(jointKeyframes) = 0
        THEN [x |-> R(originalJoint.x), y |-> R(originalJoint.y), rotation |-> R(0)]
        ELSE IF BeforeFirst(frame, jointKeyframes[1])
        THEN KeyframePose(jointKeyframes[1])
        ELSE IF AfterLast(frame, jointKeyframes[Len(jointKeyframes)])
        THEN KeyframePose(jointKeyframes[Len(jointKeyframes)])
        ELSE IF Len(jointKeyframes) < 2
        THEN TypeError
        ELSE LET seg == FindSegment(jointKeyframes, frame)
                 prevKeyframe == seg.prevKeyframe
                 nextKeyframe == seg.nextKeyframe
                 progress == Progress(prevKeyframe, nextKeyframe, frame)
                 easing == SegmentEasing(prevKeyframe, nextKeyframe)
             IN  [x |-> lerp(R(prevKeyframe.x), R(nextKeyframe.x), progress, easing),
                  y |-> lerp(R(prevKeyframe.y), R(nextKeyframe.y), progress, easing),
                  rotation |-> lerp(R(NumOr(prevKeyframe.rotation, 0)),
                                    R(NumOr(nextKeyframe.rotation, 0)),
                                    progress, easing)]

\* A pose keyed by every joint id met in the joint list or in the keyframes.
getAllJointPositionsAtFrame_ByKeyframes(js, frame, kfs) ==
    LET ids == {js[i].id : i \in DOMAIN js} \cup {kfs[k].jointId : k \in DOMAIN kfs}
    IN  [id \in ids |->
            getJointPositionAtFrame(id, frame, kfs, [id |-> id, x |-> 0, y |-> 0])]

\* joints.forEach(joint => positions[joint.id] = ...): one key per joint id,
\* a later joint with the same id overwrites the earlier entry.
RECURSIVE getAllJointPositionsAtFrame(_, _, _)
getAllJointPositionsAtFrame(js, frame, kfs) ==
    IF js = <<>> THEN <<>>
    ELSE LET joint == js[Len(js)]
         IN  (joint.id :> getJointPositionAtFrame(joint.id, frame, kfs, joint))
             @@ getAllJointPositionsAtFrame(SubSeq(js, 1, Len(js) - 1), frame, kfs)

(***************************************************************************)
(* Layer transform resolver                                                *)
(***************************************************************************)
\* Array.prototype.find / findIndex over the set of indices that satisfy the
\* test: the first of them, or 0 when nothing is found.
Find(hits) == IF hits = {} THEN 0 ELSE Min(hits)

\* layer.transform?.field || dflt (every layer of the model has a transform)
RestField(l, field, dflt) == NumOr(l.transform[field], dflt)

getLayerTransformFromJoints(l, positions, js) ==
    LET linked == Find({i \in DOMAIN js : js[i].layerId = l.id})
    IN  IF linked = 0 \/ js[linked].id \notin DOMAIN positions
        THEN [x |-> R(RestField(l, "x", 0)),
              y |-> R(RestField(l, "y", 0)),
              rotation |-> R(RestField(l, "rotation", 0)),
              scaleX |-> R(RestField(l, "scaleX", 1)),
              scaleY |-> R(RestField(l, "scaleY", 1))]
        ELSE LET linkedJoint == js[linked]
                 pos == positions[linkedJoint.id]
                 originalJoint == js[Find({i \in DOMAIN js : js[i].id = linkedJoint.id})]
                 deltaX == RSub(pos.x, R(originalJoint.x))
                 deltaY == RSub(pos.y, R(originalJoint.y))
             IN  [x |-> RAdd(R(RestField(l, "x", 0)), deltaX),
                  y |-> RAdd(R(RestField(l, "y", 0)), deltaY),
                  rotation |-> RAdd(R(RestField(l, "rotation", 0)), pos.rotation),
                  scaleX |-> R(RestField(l, "scaleX", 1)),
                  scaleY |-> R(RestField(l, "scaleY", 1))]

(***************************************************************************)
(* The editor store: initial state                                         *)
(***************************************************************************)
MAX_HISTORY_SIZE == 50

InitialCharacter ==
    [id |-> Null, name |-> "", originalImage |-> Null, processedImage |-> Null,
     layers |-> <<>>, joints |-> <<>>, bones |-> <<>>]

InitialMotion ==
    [id |-> Null, name |-> "New Motion", fps |-> 12, frameCount |-> 30,
     loop |-> TRUE, keyframes |-> <<>>]

InitialProject == [id |-> Null, name |-> "New Project", saved |-> TRUE]

initialState ==
    /\ character = InitialCharacter
    /\ currentMotion = InitialMotion
    /\ project = InitialProject
    /\ history = [past |-> <<>>, future |-> <<>>]
    /\ selection = [layers |-> <<>>, joints |-> <<>>, bones |-> <<>>, keyframes |-> <<>>]
    /\ timeline = [currentFrame |-> 0, isPlaying |-> FALSE, isLooping |-> TRUE]
    /\ currentStep = 1
    /\ nextId = 1
    /\ ops = 0

\* No export has been started.
NoExport ==
    [character |-> InitialCharacter, motion |-> InitialMotion,
     options |-> [width |-> 0, height |-> 0, backgroundColor |-> Null, onProgress |-> FALSE]]

NoBox == [x |-> <<0, 1>>, y |-> <<0, 1>>, width |-> <<0, 1>>, height |-> <<0, 1>>]

\* No lerp call has been made in double arithmetic; no playback timer is set.
NoLerp ==
    [called |-> FALSE, start |-> FZero, end |-> FZero, t |-> FZero,
     easing |-> "linear", result |-> FZero]
NoPlayback == [timer |-> FALSE, currentFrame |-> 0, frameCount |-> 0, isLooping |-> FALSE]

captureIdle ==
    /\ exportArgs = NoExport
    /\ loading = {}
    /\ imageCache = <<>>
    /\ boundingBox = NoBox
    /\ loopFrame = 0
    /\ frames = <<>>
    /\ log = <<>>
    /\ showExportModal = FALSE
    /\ lerpCall = NoLerp
    /\ playback = NoPlayback

(***************************************************************************)
(* Inputs of the pure functions                                            *)
(***************************************************************************)
Joint(id, x, y, parentId, layerId) ==
    [id |-> id, x |-> x, y |-> y, parentId |-> parentId, layerId |-> layerId]

Keyframe(jointId, frameNumber, x, y, rotation, easing) ==
    [jointId |-> jointId, frameNumber |-> frameNumber,
     x |-> x, y |-> y, rotation |-> rotation, easing |-> easing]

J1 == Joint("J1", 10, 20, Null, "L1")
J2 == Joint("J2", -5, 8, "J1", Null)

\* With the joint list <<J1>> the keyframes of "J2" reference no joint.
JointLists == {<<J1, J2>>, <<J1>>}

Targets == {<<0, 0, 0>>, <<100, 40, -90>>}
TrackEasings == {"linear", "easeIn"}

TrackKeyframes ==
    {Keyframe(j, f, t[1], t[2], t[3], e) :
        j \in {"J1", "J2"}, f \in 0..MaxFrame, t \in Targets, e \in TrackEasings}

Tracks == UNION {[1..n -> TrackKeyframes] : n \in 0..MaxKeyframes}

\* The concrete scenarios of the specification, with every easing name of the
\* catalog, an unknown name and an empty name on every keyframe.
ScenarioEasings == EasingNames \cup {"spring", ""}

Scenarios ==
    {<<Keyframe("J1", 0, 0, 0, 0, e1), Keyframe("J1", 10, 100, 0, 0, e2)>> :
        e1 \in ScenarioEasings, e2 \in ScenarioEasings}
    \cup
    {<<Keyframe("J2", 5, 7, 7, 30, e1),
       Keyframe("J1", 10, 100, 0, 0, e3),
       Keyframe("J1", 0, 0, 0, 0, e1),
       Keyframe("J1", 5, 30, 20, 45, e2)>> :
        e1 \in {"linear", "easeOut"}, e2 \in ScenarioEasings, e3 \in ScenarioEasings}

QueryFrames(kfs) ==
    (-1)..(Max({MaxFrame} \cup {kfs[i].frameNumber : i \in DOMAIN kfs}) + 1)

NoLayer == [id |-> Null, transform |-> [x |-> 0, y |-> 0, rotation |-> 0, scaleX |-> 1, scaleY |-> 1]]
NoTransform == [x |-> R(0), y |-> R(0), rotation |-> R(0), scaleX |-> R(1), scaleY |-> R(1)]

InitPose ==
    /\ keyframes \in Tracks \cup Scenarios
    /\ joints \in JointLists
    /\ currentFrame = 0
    /\ jointPositions = <<>>
    /\ layer = NoLayer
    /\ transform = NoTransform
    /\ pc = "input"
    /\ initialState
    /\ captureIdle

\* One pose evaluation, as made by renderFrame and by the live preview.
PoseAt ==
    /\ pc = "input"
    /\ \E frame \in QueryFrames(keyframes) :
        /\ currentFrame' = frame
        /\ jointPositions' = getAllJointPositionsAtFrame(joints, frame, keyframes)
    /\ pc' = "posed"
    /\ UNCHANGED <<keyframes, joints, layer, transform, storeVars, captureVars>>

NextPose == PoseAt

SpecPose == InitPose /\ [][NextPose]_vars

(***************************************************************************)
(* Properties of the pose evaluator                                        *)
(***************************************************************************)
JointIds == {joints[i].id : i \in DOMAIN joints}
KeyframeIdx(jointId) == {k \in DOMAIN keyframes : keyframes[k].jointId = jointId}
DistinctFrames(jointId) ==
    \A a, b \in KeyframeIdx(jointId) :
        a # b => keyframes[a].frameNumber # keyframes[b].frameNumber
FramesOf(jointId) == {keyframes[k].frameNumber : k \in KeyframeIdx(jointId)}
ExactPose(kf) == [x |-> R(kf.x), y |-> R(kf.y), rotation |-> R(kf.rotation)]

\* C1: at the frame number of any keyframe of a joint (first, last or
\* interior, any easing), the evaluated pose of the joint is exactly that
\* keyframe's x, y and rotation, provided the joint's keyframes have pairwise
\* distinct frame numbers.
C1_ExactAtKeyframes ==
    pc = "posed" =>
        \A i \in DOMAIN joints :
            DistinctFrames(joints[i].id) =>
                \A k \in KeyframeIdx(joints[i].id) :
                    keyframes[k].frameNumber = currentFrame =>
                        jointPositions[joints[i].id] = ExactPose(keyframes[k])

\* An interior keyframe with its own values, approached and left with
\* non-linear easings, evaluated at its own frame.
C1_Witness ==
    /\ pc = "posed"
    /\ currentFrame = 5
    /\ \E k \in KeyframeIdx("J1") :
        /\ keyframes[k] = Keyframe("J1", 5, 30, 20, 45, "easeOutBounce")
        /\ \E n \in KeyframeIdx("J1") :
            keyframes[n].frameNumber = 10 /\ keyframes[n].easing = "easeOutElastic"
        /\ jointPositions["J1"] = [x |-> R(30), y |-> R(20), rotation |-> R(45)]

\* C2: strictly between two consecutive keyframes prev and next of a joint
\* the pose is the interpolation of prev and next at
\* progress = (frame - prev.frameNumber) / (next.frameNumber - prev.frameNumber)
\* eased by the easing named on next; the easing of prev plays no part
\* (frame 0 x 0, frame 10 x 100 easeIn gives x 25 at frame 5).
C2_EasingOfArrival ==
    pc = "posed" =>
        /\ \A i \in DOMAIN joints :
            DistinctFrames(joints[i].id) =>
                \A p, n \in KeyframeIdx(joints[i].id) :
                    LET prev == keyframes[p]
                        next == keyframes[n]
                        t == Rat(currentFrame - prev.frameNumber,
                                 next.frameNumber - prev.frameNumber)
                    IN  (/\ prev.frameNumber < currentFrame
                         /\ currentFrame < next.frameNumber
                         /\ \A f \in FramesOf(joints[i].id) :
                                ~(prev.frameNumber < f /\ f < next.frameNumber))
                        => jointPositions[joints[i].id] =
                            [x |-> lerp(R(prev.x), R(next.x), t, next.easing),
                             y |-> lerp(R(prev.y), R(next.y), t, next.easing),
                             rotation |-> lerp(R(prev.rotation), R(next.rotation),
                                               t, next.easing)]
        /\ \A e \in ScenarioEasings :
            (/\ keyframes = <<Keyframe("J1", 0, 0, 0, 0, e),
                              Keyframe("J1", 10, 100, 0, 0, "easeIn")>>
             /\ currentFrame = 5)
            => jointPositions["J1"].x = R(25)

C2_Witness ==
    /\ pc = "posed"
    /\ keyframes = <<Keyframe("J1", 0, 0, 0, 0, "easeOut"),
                     Keyframe("J1", 10, 100, 0, 0, "easeIn")>>
    /\ currentFrame = 5
    /\ jointPositions["J1"].x = R(25)

\* C3: a joint without keyframes is posed at its rest (x, y) with rotation 0
\* at every frame number, whatever keyframes other joints have.
C3_RestWithoutKeyframes ==
    pc = "posed" =>
        \A i \in DOMAIN joints :
            KeyframeIdx(joints[i].id) = {} =>
                jointPositions[joints[i].id] =
                    [x |-> R(joints[i].x), y |-> R(joints[i].y), rotation |-> R(0)]

C3_Witness ==
    /\ pc = "posed"
    /\ currentFrame = -1
    /\ joints = <<J1, J2>>
    /\ KeyframeIdx("J2") = {}
    /\ Cardinality(KeyframeIdx("J1")) >= 2
    /\ jointPositions["J2"] = [x |-> R(-5), y |-> R(8), rotation |-> R(0)]

\* C4 (as claimed): for every joint with at least one keyframe, below the
\* first keyframe the pose equals the pose at the first keyframe's frame
\* number, above the last keyframe it equals the pose at the last keyframe's
\* frame number.
C4_ClampOutsideRange_AnyTrack ==
    pc = "posed" =>
        \A i \in DOMAIN joints :
            KeyframeIdx(joints[i].id) # {} =>
                LET lo == Min(FramesOf(joints[i].id))
                    hi == Max(FramesOf(joints[i].id))
                IN  /\ currentFrame < lo =>
                        jointPositions[joints[i].id] =
                            getJointPositionAtFrame(joints[i].id, lo, keyframes, joints[i])
                    /\ currentFrame > hi =>
                        jointPositions[joints[i].id] =
                            getJointPositionAtFrame(joints[i].id, hi, keyframes, joints[i])

\* C4 (amended): the same, for every joint that has a single keyframe or
\* whose keyframes do not all share one frame number.
C4_ClampOutsideRange ==
    pc = "posed" =>
        \A i \in DOMAIN joints :
            (/\ KeyframeIdx(joints[i].id) # {}
             /\ \/ Cardinality(KeyframeIdx(joints[i].id)) = 1
                \/ Cardinality(FramesOf(joints[i].id)) > 1) =>
                LET lo == Min(FramesOf(joints[i].id))
                    hi == Max(FramesOf(joints[i].id))
                IN  /\ currentFrame < lo =>
                        jointPositions[joints[i].id] =
                            getJointPositionAtFrame(joints[i].id, lo, keyframes, joints[i])
                    /\ currentFrame > hi =>
                        jointPositions[joints[i].id] =
                            getJointPositionAtFrame(joints[i].id, hi, keyframes, joints[i])

C4_Witness ==
    /\ pc = "posed"
    /\ Cardinality(FramesOf("J1")) = 3
    /\ currentFrame > Max(FramesOf("J1"))
    /\ \E k \in KeyframeIdx("J1") :
        /\ keyframes[k].frameNumber = Max(FramesOf("J1"))
        /\ keyframes[k].x = 100
        /\ keyframes[k].easing = "easeIn"
    /\ jointPositions["J1"].x = R(100)

C8_PoseCoversJoints ==
    pc = "posed" =>
        /\ DOMAIN jointPositions = JointIds
        /\ \A id \in JointIds : DOMAIN jointPositions[id] = {"x", "y", "rotation"}
        /\ jointPositions =
            getAllJointPositionsAtFrame(
                joints, currentFrame,
                SelectSeq(keyframes, LAMBDA kf : kf.jointId \in JointIds))

C8_Witness ==
    /\ pc = "posed"
    /\ joints = <<J1>>
    /\ KeyframeIdx("J2") # {}
    /\ KeyframeIdx("J1") # {}
    /\ DOMAIN jointPositions = {"J1"}

(***************************************************************************)
(* Inputs and properties of the layer transform resolver                   *)
(***************************************************************************)
RestTransforms ==
    [x : {0, 20}, y : {0, -7}, rotation : {0, 45}, scaleX : {0, 1, 2}, scaleY : {0, 1, 2}]

LayerInputs == {[id |-> "L1", transform |-> t] : t \in RestTransforms}

BoundJointLists ==
    {<<Joint("J1", 10, 20, Null, a), Joint("J2", -5, 8, "J1", b)>> :
        a \in {Null, "L1", "L2"}, b \in {Null, "L1", "L2"}}

PoseValues ==
    {[x |-> R(10), y |-> R(20), rotation |-> R(0)],
     [x |-> <<121, 2>>, y |-> R(20), rotation |-> R(30)],
     [x |-> R(-5), y |-> <<-3, 4>>, rotation |-> <<-45, 2>>]}

Poses == UNION {[S -> PoseValues] : S \in SUBSET {"J1", "J2"}}

InitResolve ==
    /\ keyframes = <<>>
    /\ joints \in BoundJointLists
    /\ currentFrame = 0
    /\ jointPositions \in Poses
    /\ layer \in LayerInputs
    /\ transform = NoTransform
    /\ pc = "posed"
    /\ initialState
    /\ captureIdle

\* One resolution of a layer's transform against a pose.
Resolve ==
    /\ pc = "posed"
    /\ transform' = getLayerTransformFromJoints(layer, jointPositions, joints)
    /\ pc' = "resolved"
    /\ UNCHANGED <<keyframes, joints, currentFrame, jointPositions, layer, storeVars,
                   captureVars>>

NextResolve == Resolve

SpecResolve == InitResolve /\ [][NextResolve]_vars

BoundIdx == {i \in DOMAIN joints : joints[i].layerId = layer.id}
BoundJoint == joints[Min(BoundIdx)]
RestTransform ==
    [x |-> R(layer.transform.x), y |-> R(layer.transform.y),
     rotation |-> R(layer.transform.rotation),
     scaleX |-> R(layer.transform.scaleX), scaleY |-> R(layer.transform.scaleY)]

\* C6: a layer with no bound joint, or whose bound joint is absent from the
\* pose, resolves to its rest transform, equal in x, y, rotation, scaleX and
\* scaleY, for every pose and every rest transform (components 0 included).
C6_UnboundIsRest ==
    (pc = "resolved" /\ (BoundIdx = {} \/ BoundJoint.id \notin DOMAIN jointPositions))
        => transform = RestTransform

\* C7: a layer bound to a joint present in the pose resolves to
\* rest position + (posed joint position - joint rest position),
\* rest rotation + posed joint rotation, and its rest scale; so the offset of
\* the layer from its posed joint equals the rest offset.
C7_BoundFollowsJoint ==
    (pc = "resolved" /\ BoundIdx # {} /\ BoundJoint.id \in DOMAIN jointPositions)
        => LET pos == jointPositions[BoundJoint.id]
           IN  /\ transform.x = RAdd(RestTransform.x, RSub(pos.x, R(BoundJoint.x)))
               /\ transform.y = RAdd(RestTransform.y, RSub(pos.y, R(BoundJoint.y)))
               /\ transform.rotation = RAdd(RestTransform.rotation, pos.rotation)
               /\ transform.scaleX = RestTransform.scaleX
               /\ transform.scaleY = RestTransform.scaleY
               /\ RSub(transform.x, pos.x) = RSub(RestTransform.x, R(BoundJoint.x))
               /\ RSub(transform.y, pos.y) = RSub(RestTransform.y, R(BoundJoint.y))

(***************************************************************************)
(* The editor store: operations                                            *)
(* Display names and colours of layers, joints and bones are left out.     *)
(***************************************************************************)
\* uuidv4(): the n-th identifier handed out.
uuidv4(n) == "u" \o ToString(n)

\* JSON.parse(JSON.stringify(v)): the values of the model are numbers,
\* strings, booleans, arrays and plain objects, which the round trip copies.
JSONClone(v) == v

\* {...a, ...b}
Merge(a, b) ==
    [k \in DOMAIN a \cup DOMAIN b |-> IF k \in DOMAIN b THEN b[k] ELSE a[k]]

\* array.slice(-n) for n >= 0 (slice(-0) is the whole array)
SliceLast(s, n) ==
    IF n = 0 \/ Len(s) <= n THEN s ELSE SubSeq(s, Len(s) - n + 1, Len(s))

\* array.slice(0, n)
SliceFirst(s, n) == IF Len(s) <= n THEN s ELSE SubSeq(s, 1, n)

Snapshot_CharacterOnly ==
    [character |-> JSONClone(character), currentMotion |-> JSONClone(InitialMotion)]

Snapshot ==
    [character |-> JSONClone(character), currentMotion |-> JSONClone(currentMotion)]

\* history after saveSnapshot()
saveSnapshot ==
    [past |-> Append(SliceLast(history.past, MAX_HISTORY_SIZE - 1), Snapshot),
     future |-> <<>>]

\* The store's character, currentMotion and history after undo(), from the
\* history h and the snapshot cur of the present state.
Undone(h, cur) ==
    [character |-> h.past[Len(h.past)].character,
     currentMotion |-> h.past[Len(h.past)].currentMotion,
     history |-> [past |-> SubSeq(h.past, 1, Len(h.past) - 1),
                  future |-> <<cur>> \o SliceFirst(h.future, MAX_HISTORY_SIZE - 1)]]

undo ==
    /\ ops < MaxOps
    /\ Len(history.past) > 0
    /\ character' = Undone(history, Snapshot).character
    /\ currentMotion' = Undone(history, Snapshot).currentMotion
    /\ history' = Undone(history, Snapshot).history
    /\ ops' = ops + 1
    /\ UNCHANGED <<project, selection, timeline, currentStep, nextId, evalVars>>

\* The same after redo().
Redone(h, cur) ==
    [character |-> h.future[1].character,
     currentMotion |-> h.future[1].currentMotion,
     history |-> [past |-> Append(h.past, cur), future |-> Tail(h.future)]]

redo ==
    /\ ops < MaxOps
    /\ Len(history.future) > 0
    /\ character' = Redone(history, Snapshot).character
    /\ currentMotion' = Redone(history, Snapshot).currentMotion
    /\ history' = Redone(history, Snapshot).history
    /\ ops' = ops + 1
    /\ UNCHANGED <<project, selection, timeline, currentStep, nextId, evalVars>>

existingIndex_Never(kfs, jointId, frameNumber) == 0

\* keyframes.findIndex(kf => kf.jointId === jointId && kf.frameNumber === frameNumber),
\* 0 standing for -1.
existingIndex(kfs, jointId, frameNumber) ==
    Find({i \in DOMAIN kfs :
            kfs[i].jointId = jointId /\ kfs[i].frameNumber = frameNumber})

\* props.field || dflt
PropOr(props, field, dflt) ==
    IF field \in DOMAIN props
    THEN (IF field = "easing" THEN StrOr(props[field], dflt) ELSE NumOr(props[field], dflt))
    ELSE dflt

NewKeyframe(id, jointId, frameNumber, props) ==
    Merge([id |-> id, jointId |-> jointId, frameNumber |-> frameNumber,
           x |-> PropOr(props, "x", 0),
           y |-> PropOr(props, "y", 0),
           rotation |-> PropOr(props, "rotation", 0),
           easing |-> PropOr(props, "easing", "linear")],
          props)

addKeyframe(jointId, frameNumber, props) ==
    /\ ops < MaxOps
    /\ LET kfs == currentMotion.keyframes
           idx == existingIndex(kfs, jointId, frameNumber)
           newKeyframes ==
               IF idx > 0
               THEN [kfs EXCEPT ![idx] = Merge(kfs[idx], props)]
               ELSE Append(kfs, NewKeyframe(uuidv4(nextId), jointId, frameNumber, props))
       IN  /\ history' = IF idx = 0 THEN saveSnapshot ELSE history
           /\ nextId' = IF idx = 0 THEN nextId + 1 ELSE nextId
           /\ currentMotion' =
                [currentMotion EXCEPT !.keyframes = SortByFrame(newKeyframes)]
           /\ project' = [project EXCEPT !.saved = FALSE]
    /\ ops' = ops + 1
    /\ UNCHANGED <<character, selection, timeline, currentStep, evalVars>>

removeKeyframe(keyframeId) ==
    /\ ops < MaxOps
    /\ history' = saveSnapshot
    /\ project' = [project EXCEPT !.saved = FALSE]
    /\ currentMotion' =
        [currentMotion EXCEPT
            !.keyframes = SelectSeq(@, LAMBDA kf : kf.id # keyframeId)]
    /\ ops' = ops + 1
    /\ UNCHANGED <<character, selection, timeline, currentStep, nextId, evalVars>>

\* The character of loadCharacter(characterData); identifiers missing from
\* the data are drawn from uuidv4() starting at number n, layers first, then
\* joints, then bones.
MissingIds(items) == {i \in DOMAIN items : items[i].id = Null}
IdRank(items, i) == Cardinality({k \in MissingIds(items) : k < i})
LoadedId(items, i, n) ==
    IF items[i].id = Null THEN uuidv4(n + IdRank(items, i)) ELSE items[i].id

LoadedCharacter(characterData, n) ==
    LET ls == characterData.layers
        js == characterData.joints
        bs == characterData.bones
        nj == n + Cardinality(MissingIds(ls))
        nb == nj + Cardinality(MissingIds(js))
    IN  [id |-> characterData.id,
         name |-> characterData.name,
         originalImage |-> characterData.original_image,
         processedImage |-> characterData.processed_image,
         layers |-> [i \in DOMAIN ls |->
                        [id |-> LoadedId(ls, i, n),
                         order |-> ls[i].order,
                         imageData |-> ls[i].image_data,
                         visible |-> ls[i].visible,
                         opacity |-> ls[i].opacity,
                         transform |-> ls[i].transform]],
         joints |-> [i \in DOMAIN js |->
                        [id |-> LoadedId(js, i, nj),
                         x |-> NumOr(js[i].x, 0),
                         y |-> NumOr(js[i].y, 0),
                         parentId |-> js[i].parent_id,
                         layerId |-> js[i].layer_id]],
         bones |-> [i \in DOMAIN bs |->
                        [id |-> LoadedId(bs, i, nb),
                         startJointId |-> bs[i].start_joint_id,
                         endJointId |-> bs[i].end_joint_id]]]

CharacterIds(characterData) ==
    Cardinality(MissingIds(characterData.layers))
    + Cardinality(MissingIds(characterData.joints))
    + Cardinality(MissingIds(characterData.bones))

LoadedProject(characterData) ==
    [project EXCEPT !.id = characterData.id,
                    !.name = StrOr(characterData.name, "New Project"),
                    !.saved = TRUE]

\* The motion of loadMotion(motionData), identifiers drawn from number n on.
LoadedMotion(motionData, n) ==
    LET ks == motionData.keyframes
    IN  [id |-> motionData.id,
         name |-> StrOr(motionData.name, "New Motion"),
         fps |-> NumOr(motionData.fps, 12),
         frameCount |-> NumOr(motionData.frame_count, 30),
         loop |-> motionData.loop,
         keyframes |-> [i \in DOMAIN ks |->
                           [id |-> LoadedId(ks, i, n),
                            jointId |-> ks[i].joint_id,
                            frameNumber |-> ks[i].frame_number,
                            x |-> NumOr(ks[i].x, 0),
                            y |-> NumOr(ks[i].y, 0),
                            rotation |-> NumOr(ks[i].rotation, 0),
                            easing |-> StrOr(ks[i].easing, "linear")]]]

loadCharacter(characterData) ==
    /\ ops < MaxOps
    /\ character' = LoadedCharacter(characterData, nextId)
    /\ project' = LoadedProject(characterData)
    /\ currentStep' = 3
    /\ nextId' = nextId + CharacterIds(characterData)
    /\ ops' = ops + 1
    /\ UNCHANGED <<currentMotion, history, selection, timeline, evalVars>>

loadMotion(motionData) ==
    /\ ops < MaxOps
    /\ currentMotion' = LoadedMotion(motionData, nextId)
    /\ nextId' = nextId + Cardinality(MissingIds(motionData.keyframes))
    /\ ops' = ops + 1
    /\ UNCHANGED <<character, project, history, selection, timeline, currentStep,
                   evalVars>>

\* A JSON null in a list of the data, where an object is expected.
JsNull == [null |-> TRUE]

\* items.map(item => ({id: item.id || ...})) throws a TypeError at a null.
MapThrows(items) == \E i \in DOMAIN items : items[i] = JsNull

\* loadCharacter(characterData) throws inside the updater given to set(),
\* so that nothing of it is applied.
loadCharacterThrows(characterData) ==
    \/ MapThrows(characterData.layers)
    \/ MapThrows(characterData.joints)
    \/ MapThrows(characterData.bones)

loadMotionThrows(motionData) == MapThrows(motionData.keyframes)

\* The steps of importProjectFromJSON that complete: loadCharacter when the
\* data has a character and loading it does not throw, loadMotion when it was
\* reached, the data has a motion and loading it does not throw, the project
\* name when nothing threw.
CharacterLoads(data) ==
    data.character # <<>> /\ ~loadCharacterThrows(data.character[1])
MotionReached(data) ==
    data.character = <<>> \/ ~loadCharacterThrows(data.character[1])
MotionLoads(data) ==
    MotionReached(data) /\ data.motion # <<>> /\ ~loadMotionThrows(data.motion[1])
ProjectReached(data) ==
    MotionReached(data) /\ (data.motion = <<>> \/ ~loadMotionThrows(data.motion[1]))

\* The value importProjectFromJSON returns: false from the catch block.
importReturns(data) == data.parses /\ ProjectReached(data)

\* importProjectFromJSON(jsonString). The string is given by what JSON.parse
\* makes of it: parses = FALSE when JSON.parse throws, otherwise the parts
\* character, motion and project, each a sequence of zero or one value. The
\* uuids drawn by a load that throws are discarded with it.
importProjectFromJSON(data) ==
    /\ ops < MaxOps
    /\ IF ~data.parses
       THEN UNCHANGED <<character, currentMotion, project, currentStep, nextId>>
       ELSE LET hasC == CharacterLoads(data)
                hasM == MotionLoads(data)
                hasP == ProjectReached(data) /\ data.project # <<>>
                nm == IF hasC THEN nextId + CharacterIds(data.character[1]) ELSE nextId
                p1 == IF hasC THEN LoadedProject(data.character[1]) ELSE project
            IN  /\ character' =
                    IF hasC THEN LoadedCharacter(data.character[1], nextId) ELSE character
                /\ currentStep' = IF hasC THEN 3 ELSE currentStep
                /\ currentMotion' =
                    IF hasM THEN LoadedMotion(data.motion[1], nm) ELSE currentMotion
                /\ nextId' =
                    IF hasM
                    THEN nm + Cardinality(MissingIds(data.motion[1].keyframes))
                    ELSE nm
                /\ project' =
                    IF hasP
                    THEN [p1 EXCEPT !.name = StrOr(data.project[1].name, p1.name)]
                    ELSE p1
    /\ ops' = ops + 1
    /\ UNCHANGED <<history, selection, timeline, evalVars>>

(***************************************************************************)
(* The editor store: inputs                                                *)
(***************************************************************************)
StoreJointIds == {"J1", "J2"}

KeyframeProps ==
    {[x |-> 5, y |-> 7], [rotation |-> 90, easing |-> "easeIn"]}

SavedKeyframe(jointId, frameNumber, x) ==
    [id |-> Null, joint_id |-> jointId, frame_number |-> frameNumber,
     x |-> x, y |-> 0, rotation |-> 0, easing |-> "linear"]

SavedMotion(ks) ==
    [id |-> Null, name |-> "walk", fps |-> 24, frame_count |-> 10, loop |-> FALSE,
     keyframes |-> ks]

\* Saved motions: empty, in frame order, out of frame order, and with two
\* keyframes of one joint at one frame.
MotionInputs ==
    {SavedMotion(<<>>),
     SavedMotion(<<SavedKeyframe("J1", 0, 1), SavedKeyframe("J2", 0, 2),
                   SavedKeyframe("J1", 2, 3)>>),
     SavedMotion(<<SavedKeyframe("J1", 2, 3), SavedKeyframe("J1", 0, 1)>>),
     SavedMotion(<<SavedKeyframe("J1", 1, 1), SavedKeyframe("J1", 1, 2)>>)}

DefaultTransform == [x |-> 0, y |-> 0, rotation |-> 0, scaleX |-> 1, scaleY |-> 1]

SavedCharacter ==
    [id |-> Null, name |-> "puppet", original_image |-> Null, processed_image |-> "png",
     layers |-> <<[id |-> Null, order |-> 0, image_data |-> "png", visible |-> TRUE,
                   opacity |-> 1, transform |-> DefaultTransform]>>,
     joints |-> <<[id |-> Null, x |-> 10, y |-> 20, parent_id |-> Null, layer_id |-> "L1"],
                  [id |-> Null, x |-> -5, y |-> 8, parent_id |-> "J1", layer_id |-> Null]>>,
     bones |-> <<[id |-> Null, start_joint_id |-> "J1", end_joint_id |-> "J2"]>>]

CharacterInputs == {SavedCharacter}

JsonInputs ==
    {[parses |-> FALSE, character |-> <<>>, motion |-> <<>>, project |-> <<>>]}
    \cup {[parses |-> TRUE, character |-> <<>>, motion |-> <<m>>, project |-> <<>>] :
            m \in MotionInputs}
    \cup {[parses |-> TRUE, character |-> <<c>>, motion |-> <<m>>,
           project |-> <<[name |-> "demo"]>>] :
            c \in CharacterInputs, m \in MotionInputs}

InitStore ==
    /\ keyframes = <<>>
    /\ joints = <<>>
    /\ currentFrame = 0
    /\ jointPositions = <<>>
    /\ layer = NoLayer
    /\ transform = NoTransform
    /\ pc = "store"
    /\ initialState
    /\ captureIdle

AddKeyframe ==
    \E jointId \in StoreJointIds, frameNumber \in 0..MaxFrame, props \in KeyframeProps :
        addKeyframe(jointId, frameNumber, props)

RemoveKeyframe ==
    \E keyframeId \in {currentMotion.keyframes[k].id : k \in DOMAIN currentMotion.keyframes}
                      \cup {"none"} :
        removeKeyframe(keyframeId)

LoadCharacter == \E characterData \in CharacterInputs : loadCharacter(characterData)

LoadMotion == \E motionData \in MotionInputs : loadMotion(motionData)

ImportProjectFromJSON == \E data \in JsonInputs : importProjectFromJSON(data)

\* The keyframe editor alone: addKeyframe and removeKeyframe.
NextKeyframes == AddKeyframe \/ RemoveKeyframe

SpecKeyframes == InitStore /\ [][NextKeyframes]_vars

\* The store with history and loading.
NextStore ==
    \/ AddKeyframe
    \/ RemoveKeyframe
    \/ undo
    \/ redo
    \/ LoadCharacter
    \/ LoadMotion
    \/ ImportProjectFromJSON

Spec == InitStore /\ [][NextStore]_vars

(***************************************************************************)
(* Properties of the keyframe list of the store                            *)
(***************************************************************************)
StoreKeyframes == currentMotion.keyframes

KeyframeAt(jointId, frameNumber) ==
    {k \in DOMAIN StoreKeyframes :
        /\ StoreKeyframes[k].jointId = jointId
        /\ StoreKeyframes[k].frameNumber = frameNumber}

UniquePairs ==
    \A jointId \in StoreJointIds, frameNumber \in 0..MaxFrame :
        Cardinality(KeyframeAt(jointId, frameNumber)) <= 1

OverwritesInPlace ==
    \A jointId \in StoreJointIds, frameNumber \in 0..MaxFrame, props \in KeyframeProps :
        (KeyframeAt(jointId, frameNumber) # {} /\ addKeyframe(jointId, frameNumber, props))
        => LET k == CHOOSE i \in KeyframeAt(jointId, frameNumber) : TRUE
               old == StoreKeyframes[k]
               new == currentMotion'.keyframes[k]
           IN  /\ Len(currentMotion'.keyframes) = Len(StoreKeyframes)
               /\ \A i \in DOMAIN StoreKeyframes \ {k} :
                    currentMotion'.keyframes[i] = StoreKeyframes[i]
               /\ new.id = old.id
               /\ DOMAIN new = DOMAIN old
               /\ \A field \in DOMAIN props : new[field] = props[field]
               /\ \A field \in DOMAIN old \ DOMAIN props : new[field] = old[field]

\* C9: through addKeyframe and removeKeyframe (props among x, y, rotation,
\* easing) the keyframe list holds at most one keyframe per (jointId,
\* frameNumber); addKeyframe on a pair that has a keyframe overwrites the given
\* fields of it, keeps its id and its other fields, and keeps the number of
\* keyframes.
C9_OneKeyframePerPair == [](UniquePairs) /\ [][OverwritesInPlace]_vars

\* A single keyframe created from one set of props and overwritten with another.
C9_Witness ==
    /\ ops = 2
    /\ Len(StoreKeyframes) = 1
    /\ StoreKeyframes[1] =
        [id |-> "u1", jointId |-> "J1", frameNumber |-> 1,
         x |-> 5, y |-> 7, rotation |-> 90, easing |-> "easeIn"]

\* C10: after any sequence of addKeyframe, removeKeyframe, loadMotion,
\* importProjectFromJSON, undo and redo, the keyframes of each joint appear in
\* the keyframe list in ascending order of frameNumber.
C10_SortedPerJoint ==
    \A a, b \in DOMAIN StoreKeyframes :
        (a < b /\ StoreKeyframes[a].jointId = StoreKeyframes[b].jointId)
            => StoreKeyframes[a].frameNumber <= StoreKeyframes[b].frameNumber

(***************************************************************************)
(* The editor store: layers, joints, bones and selection                   *)
(***************************************************************************)
MaxLayerOps == 4

\* history and project after saveSnapshot()
Saved == [project EXCEPT !.saved = FALSE]

\* addLayer(layer): the fields given in `layer` override the defaults.
NewLayer(id, given) ==
    Merge([id |-> id,
           order |-> Len(character.layers),
           imageData |-> IF "imageData" \in DOMAIN given
                         THEN StrOr(given.imageData, Null) ELSE Null,
           visible |-> TRUE,
           opacity |-> 1,
           transform |-> [x |-> 0, y |-> 0, rotation |-> 0, scaleX |-> 1, scaleY |-> 1]],
          given)

addLayer(given) ==
    /\ ops < MaxLayerOps
    /\ history' = saveSnapshot
    /\ project' = Saved
    /\ character' =
        [character EXCEPT !.layers = Append(@, NewLayer(uuidv4(nextId), given))]
    /\ nextId' = nextId + 1
    /\ ops' = ops + 1
    /\ UNCHANGED <<currentMotion, selection, timeline, currentStep, evalVars>>

removeLayer(layerId) ==
    /\ ops < MaxLayerOps
    /\ history' = saveSnapshot
    /\ project' = Saved
    /\ character' =
        [character EXCEPT !.layers = SelectSeq(@, LAMBDA l : l.id # layerId)]
    /\ selection' =
        [selection EXCEPT !.layers = SelectSeq(@, LAMBDA id : id # layerId)]
    /\ ops' = ops + 1
    /\ UNCHANGED <<currentMotion, timeline, currentStep, nextId, evalVars>>

addJoint(joint) ==
    /\ ops < MaxOps
    /\ history' = saveSnapshot
    /\ project' = Saved
    /\ LET newJoint == [id |-> uuidv4(nextId),
                        x |-> joint.x,
                        y |-> joint.y,
                        parentId |-> StrOr(joint.parentId, Null),
                        layerId |-> StrOr(joint.layerId, Null)]
       IN  character' = [character EXCEPT !.joints = Append(@, newJoint)]
    /\ nextId' = nextId + 1
    /\ ops' = ops + 1
    /\ UNCHANGED <<currentMotion, selection, timeline, currentStep, evalVars>>

updateJoint(jointId, updates) ==
    /\ ops < MaxOps
    /\ character' =
        [character EXCEPT
            !.joints = [i \in DOMAIN @ |->
                          IF @[i].id = jointId THEN Merge(@[i], updates) ELSE @[i]]]
    /\ project' = Saved
    /\ ops' = ops + 1
    /\ UNCHANGED <<currentMotion, history, selection, timeline, currentStep, nextId,
                   evalVars>>

BoneTouches_StartOnly(b, jointId) == b.startJointId = jointId

\* the bones removeJoint(jointId) filters out
BoneTouches(b, jointId) == b.startJointId = jointId \/ b.endJointId = jointId

removeJoint(jointId) ==
    /\ ops < MaxOps
    /\ history' = saveSnapshot
    /\ project' = Saved
    /\ character' =
        [character EXCEPT
            !.joints = SelectSeq(@, LAMBDA j : j.id # jointId),
            !.bones = SelectSeq(@, LAMBDA b : ~BoneTouches(b, jointId))]
    /\ selection' =
        [selection EXCEPT !.joints = SelectSeq(@, LAMBDA id : id # jointId)]
    /\ ops' = ops + 1
    /\ UNCHANGED <<currentMotion, timeline, currentStep, nextId, evalVars>>

BoneExists_SameDirection(bones, startJointId, endJointId) ==
    \E i \in DOMAIN bones :
        bones[i].startJointId = startJointId /\ bones[i].endJointId = endJointId

\* `exists` of addBone
BoneExists(bones, startJointId, endJointId) ==
    \E i \in DOMAIN bones :
        \/ bones[i].startJointId = startJointId /\ bones[i].endJointId = endJointId
        \/ bones[i].startJointId = endJointId /\ bones[i].endJointId = startJointId

addBone(startJointId, endJointId) ==
    /\ ops < MaxOps
    /\ IF BoneExists(character.bones, startJointId, endJointId)
       THEN UNCHANGED <<character, history, project, nextId>>
       ELSE /\ history' = saveSnapshot
            /\ project' = Saved
            /\ LET newBone == [id |-> uuidv4(nextId),
                               startJointId |-> startJointId,
                               endJointId |-> endJointId]
               IN  character' = [character EXCEPT !.bones = Append(@, newBone)]
            /\ nextId' = nextId + 1
    /\ ops' = ops + 1
    /\ UNCHANGED <<currentMotion, selection, timeline, currentStep, evalVars>>

removeBone(boneId) ==
    /\ ops < MaxOps
    /\ history' = saveSnapshot
    /\ project' = Saved
    /\ character' =
        [character EXCEPT !.bones = SelectSeq(@, LAMBDA b : b.id # boneId)]
    /\ ops' = ops + 1
    /\ UNCHANGED <<currentMotion, selection, timeline, currentStep, nextId, evalVars>>

selectJoint(jointId, multi) ==
    /\ ops < MaxOps
    /\ LET sel == selection.joints
           included == \E i \in DOMAIN sel : sel[i] = jointId
       IN  selection' =
             [selection EXCEPT
                !.joints = IF multi
                           THEN (IF included
                                 THEN SelectSeq(sel, LAMBDA id : id # jointId)
                                 ELSE Append(sel, jointId))
                           ELSE <<jointId>>]
    /\ ops' = ops + 1
    /\ UNCHANGED <<character, currentMotion, project, history, timeline, currentStep,
                   nextId, evalVars>>

(***************************************************************************)
(* The editor store: inputs of the character operations                    *)
(***************************************************************************)
\* A saved character as the server returns it, identifiers included.
RigCharacter ==
    [id |-> "C1", name |-> "rig", original_image |-> Null, processed_image |-> "png",
     layers |-> <<[id |-> "L1", order |-> 0, image_data |-> "png", visible |-> TRUE,
                   opacity |-> 1, transform |-> DefaultTransform],
                  [id |-> "L2", order |-> 1, image_data |-> "png", visible |-> TRUE,
                   opacity |-> 1, transform |-> DefaultTransform]>>,
     joints |-> <<[id |-> "J1", x |-> 10, y |-> 20, parent_id |-> Null, layer_id |-> "L1"],
                  [id |-> "J2", x |-> -5, y |-> 8, parent_id |-> "J1", layer_id |-> Null],
                  [id |-> "J3", x |-> 0, y |-> 30, parent_id |-> "J2", layer_id |-> Null]>>,
     bones |-> <<[id |-> "B1", start_joint_id |-> "J1", end_joint_id |-> "J2"],
                 [id |-> "B2", start_joint_id |-> "J2", end_joint_id |-> "J3"]>>]

\* The store after construction, or after loadCharacter(RigCharacter).
InitRig ==
    /\ keyframes = <<>>
    /\ joints = <<>>
    /\ currentFrame = 0
    /\ jointPositions = <<>>
    /\ layer = NoLayer
    /\ transform = NoTransform
    /\ pc = "store"
    /\ captureIdle
    /\ currentMotion = InitialMotion
    /\ history = [past |-> <<>>, future |-> <<>>]
    /\ selection = [layers |-> <<>>, joints |-> <<>>, bones |-> <<>>, keyframes |-> <<>>]
    /\ timeline = [currentFrame |-> 0, isPlaying |-> FALSE, isLooping |-> TRUE]
    /\ nextId = 1
    /\ ops = 0
    /\ \/ /\ character = InitialCharacter
          /\ project = InitialProject
          /\ currentStep = 1
       \/ /\ character = LoadedCharacter(RigCharacter, 1)
          /\ project = [id |-> RigCharacter.id, name |-> RigCharacter.name, saved |-> TRUE]
          /\ currentStep = 3

StoreJoints == character.joints
StoreBones == character.bones
StoreLayers == character.layers

IdsOf(items) == {items[i].id : i \in DOMAIN items}

JointInputs ==
    {[x |-> 30, y |-> 40, parentId |-> Null, layerId |-> l] : l \in {Null, "L1"}}

JointUpdates == {[x |-> 1, y |-> 2], [layerId |-> "L1"], [layerId |-> "L2"]}

LayerInputs_Store == {[imageData |-> "png"], [imageData |-> Null]}

AddLayer == \E l \in LayerInputs_Store : addLayer(l)

RemoveLayer == \E layerId \in IdsOf(StoreLayers) \cup {"none"} : removeLayer(layerId)

AddJoint == \E joint \in JointInputs : addJoint(joint)

UpdateJoint ==
    \E jointId \in IdsOf(StoreJoints) \cup {"none"}, updates \in JointUpdates :
        updateJoint(jointId, updates)

RemoveJoint == \E jointId \in IdsOf(StoreJoints) \cup {"none"} : removeJoint(jointId)

AddBone ==
    \E startJointId \in IdsOf(StoreJoints), endJointId \in IdsOf(StoreJoints) :
        addBone(startJointId, endJointId)

RemoveBone == \E boneId \in IdsOf(StoreBones) \cup {"none"} : removeBone(boneId)

SelectJoint ==
    \E jointId \in IdsOf(StoreJoints), multi \in BOOLEAN : selectJoint(jointId, multi)

\* addKeyframe as the canvas calls it: for a joint that is being dragged.
AddKeyframeOfJoint ==
    \E jointId \in IdsOf(StoreJoints), frameNumber \in 0..MaxFrame :
        addKeyframe(jointId, frameNumber, [x |-> 5, y |-> 7])

\* Joints and keyframes with history.
NextRig ==
    \/ AddJoint
    \/ UpdateJoint
    \/ RemoveJoint
    \/ AddKeyframeOfJoint
    \/ undo
    \/ redo

SpecRig == InitRig /\ [][NextRig]_vars

\* Joints, bones and the joint selection.
NextJoints ==
    \/ AddJoint
    \/ SelectJoint
    \/ AddBone
    \/ RemoveJoint

SpecJoints == InitRig /\ [][NextJoints]_vars

\* Bones with history.
NextBones ==
    \/ AddBone
    \/ RemoveBone
    \/ RemoveJoint
    \/ undo
    \/ redo

SpecBones == InitRig /\ [][NextBones]_vars

\* Layers alone.
NextLayers == AddLayer \/ RemoveLayer

SpecLayers == InitStore /\ [][NextLayers]_vars

(***************************************************************************)
(* Properties of joints, bones and layers in the store                     *)
(***************************************************************************)
\* C11: in every reachable state every keyframe's jointId is the id of a joint
\* of character.joints; after removeJoint(j) no keyframe of j remains.
C11_KeyframesReferenceJoints ==
    \A k \in DOMAIN StoreKeyframes : StoreKeyframes[k].jointId \in IdsOf(StoreJoints)

RemoveJointEffect(j) ==
    /\ character'.joints = SelectSeq(StoreJoints, LAMBDA x : x.id # j)
    /\ character'.bones =
         SelectSeq(StoreBones, LAMBDA b : b.startJointId # j /\ b.endJointId # j)
    /\ selection'.joints = SelectSeq(selection.joints, LAMBDA id : id # j)
    /\ character'.layers = StoreLayers
    /\ \A i \in DOMAIN character'.bones :
         character'.bones[i].startJointId # j /\ character'.bones[i].endJointId # j

\* C12: removeJoint(j) removes joint j, exactly the bones that start or end at
\* j, and j from selection.joints; the other joints, the other bones and the
\* layers stay as they were, so no bone references j afterwards.
C12_RemoveJointCascade ==
    [][\A j \in IdsOf(StoreJoints) \cup {"none"} :
          removeJoint(j) => RemoveJointEffect(j)]_vars

\* J1 was selected together with J3 and then removed: bone B1 went with it,
\* bone B2 and the selection of J3 stayed.
C12_Witness ==
    /\ ops = 3
    /\ IdsOf(StoreJoints) = {"J2", "J3"}
    /\ IdsOf(StoreBones) = {"B2"}
    /\ selection.joints = <<"J3">>
    /\ Len(history.past) = 1
    /\ IdsOf(history.past[1].character.joints) = {"J1", "J2", "J3"}

Connected(a, b) ==
    \E i \in DOMAIN StoreBones :
        {StoreBones[i].startJointId, StoreBones[i].endJointId} = {a, b}

UniqueBones ==
    \A a, b \in DOMAIN StoreBones :
        a # b => {StoreBones[a].startJointId, StoreBones[a].endJointId}
                 # {StoreBones[b].startJointId, StoreBones[b].endJointId}

DuplicateBoneIgnored ==
    \A a, b \in IdsOf(StoreJoints) :
        (Connected(a, b) /\ addBone(a, b))
            => character'.bones = StoreBones /\ history' = history

\* C13: through addBone, removeBone, removeJoint, undo and redo no two bones
\* connect the same unordered pair of joints; addBone(a, b) when a bone (a, b)
\* or (b, a) exists leaves the bone list and the undo history unchanged.
C13_NoDuplicateBones == [](UniqueBones) /\ [][DuplicateBoneIgnored]_vars

\* One bone was added to the loaded rig and one addBone call was ignored.
C13_Witness ==
    /\ ops = 2
    /\ Len(StoreBones) = 3
    /\ Len(history.past) = 1
    /\ UniqueBones

\* C14: in every reachable state at most one joint has its layerId equal to
\* the id of any given layer.
C14_OneJointPerLayer ==
    \A l \in IdsOf(StoreLayers) :
        Cardinality({i \in DOMAIN StoreJoints : StoreJoints[i].layerId = l}) <= 1

\* C15: through addLayer and removeLayer (no order given) no two layers of
\* character.layers have the same order.
C15_UniqueOrder ==
    \A a, b \in DOMAIN StoreLayers :
        a # b => StoreLayers[a].order # StoreLayers[b].order

(***************************************************************************)
(* Frame capture: calculateBoundingBox and renderFrame                     *)
(***************************************************************************)
MaxFrameCount == 3

\* Array.prototype.sort((a, b) => a.order - b.order): stable.
RECURSIVE InsertByOrder(_, _)
InsertByOrder(s, e) ==
    IF s = <<>> THEN <<e>>
    ELSE IF s[Len(s)].order <= e.order THEN Append(s, e)
    ELSE Append(InsertByOrder(SubSeq(s, 1, Len(s) - 1), e), s[Len(s)])

SortByOrder_AsStored(s) == s

RECURSIVE SortByOrder(_)
SortByOrder(s) ==
    IF s = <<>> THEN <<>>
    ELSE InsertByOrder(SortByOrder(SubSeq(s, 1, Len(s) - 1)), s[Len(s)])

\* Math.min / Math.max over the values met by the forEach loops
RMinOf(S) == CHOOSE m \in S : \A o \in S : ~RLess(o, m)
RMaxOf(S) == CHOOSE m \in S : \A o \in S : ~RLess(m, o)

\* The image an image source decodes to, by its pixel size.
Images ==
    ("a.png" :> [width |-> 64, height |-> 32]) @@ ("b.png" :> [width |-> 15, height |-> 9])

padding == 20

calculateBoundingBox(ch, cache) ==
    LET ls == ch.layers
        js == ch.joints
        boxed == {i \in DOMAIN ls : ls[i].visible /\ ls[i].id \in DOMAIN cache}
        halfWidth(i) == RMul(Rat(cache[ls[i].id].width, 2), R(RestField(ls[i], "scaleX", 1)))
        halfHeight(i) == RMul(Rat(cache[ls[i].id].height, 2), R(RestField(ls[i], "scaleY", 1)))
        tx(i) == R(RestField(ls[i], "x", 0))
        ty(i) == R(RestField(ls[i], "y", 0))
        minXs == {RSub(tx(i), halfWidth(i)) : i \in boxed} \cup {R(js[k].x - 10) : k \in DOMAIN js}
        minYs == {RSub(ty(i), halfHeight(i)) : i \in boxed} \cup {R(js[k].y - 10) : k \in DOMAIN js}
        maxXs == {RAdd(tx(i), halfWidth(i)) : i \in boxed} \cup {R(js[k].x + 10) : k \in DOMAIN js}
        maxYs == {RAdd(ty(i), halfHeight(i)) : i \in boxed} \cup {R(js[k].y + 10) : k \in DOMAIN js}
        minX == IF minXs = {} THEN R(0) ELSE RMinOf(minXs)
        minY == IF minYs = {} THEN R(0) ELSE RMinOf(minYs)
        maxX == IF maxXs = {} THEN R(256) ELSE RMaxOf(maxXs)
        maxY == IF maxYs = {} THEN R(256) ELSE RMaxOf(maxYs)
    IN  [x |-> RSub(minX, R(padding)),
         y |-> RSub(minY, R(padding)),
         width |-> RAdd(RSub(maxX, minX), R(padding * 2)),
         height |-> RAdd(RSub(maxY, minY), R(padding * 2))]

FrameBox_PerFrame(options, ch, cache, frameNumber) ==
    [calculateBoundingBox(ch, cache) EXCEPT !.x = RAdd(@, R(frameNumber))]

\* boundingBox || calculateBoundingBox(character, imageCache); the option is
\* a sequence of zero or one box.
FrameBox(options, ch, cache, frameNumber) ==
    IF options.boundingBox # <<>>
    THEN options.boundingBox[1]
    ELSE calculateBoundingBox(ch, cache)

\* canvas.width = v: the canvas keeps the integer part (sizes here are >= 0)
CanvasSize(v) == v[1] \div v[2]

\* The frame drawn by renderFrame, given by what is put on the canvas: its
\* size, its background, the origin translation and the images drawn in order.
renderFrame(ch, motion, frameNumber, cache, options) ==
    LET positions == getAllJointPositionsAtFrame(ch.joints, frameNumber, motion.keyframes)
        box == FrameBox(options, ch, cache, frameNumber)
        shown == SortByOrder(SelectSeq(ch.layers, LAMBDA l : l.visible))
        withImage == SelectSeq(shown, LAMBDA l : l.id \in DOMAIN cache)
    IN  [width |-> IF options.width # 0 THEN options.width ELSE CanvasSize(box.width),
         height |-> IF options.height # 0 THEN options.height ELSE CanvasSize(box.height),
         backgroundColor |-> StrOr(options.backgroundColor, Null),
         translate |-> <<RSub(R(0), box.x), RSub(R(0), box.y)>>,
         drawn |-> [i \in DOMAIN withImage |->
                      [layerId |-> withImage[i].id,
                       image |-> cache[withImage[i].id],
                       transform |-> getLayerTransformFromJoints(withImage[i], positions,
                                                                 ch.joints),
                       opacity |-> withImage[i].opacity]]]

(***************************************************************************)
(* Frame capture: captureAllFrames                                         *)
(* pc: "ready" before the call, "loading" while awaiting Promise.all,      *)
(* "loop" at the loop test, "rendered" after renderFrame, "done" after     *)
(* return, "rejected" when the promise of the call rejects.                *)
(***************************************************************************)
Event(kind, n, total, id) == [kind |-> kind, n |-> n, total |-> total, id |-> id]

\* character.layers.filter(layer => layer.imageData)
LayersToLoad(ch) ==
    {ch.layers[i].id : i \in {k \in DOMAIN ch.layers : StrOr(ch.layers[k].imageData, Null) # Null}}

ImageDataOf(ch, id) ==
    ch.layers[Find({i \in DOMAIN ch.layers : ch.layers[i].id = id})].imageData

Captured_Live == [exportArgs EXCEPT !.character = character, !.motion = currentMotion]

\* captureAllFrames reads its parameters `character`, `motion` and `options`:
\* the objects handed over at the call, which no store update writes to
\* (every set() builds new objects and arrays).
Captured == exportArgs

\* The call up to `await Promise.all(loadPromises)`: every loadImage is started.
StartCapture ==
    /\ pc = "ready"
    /\ imageCache' = <<>>
    /\ loading' = LayersToLoad(Captured.character)
    /\ log' = <<Event("call", 0, 0, Null)>>
    /\ pc' = "loading"
    /\ UNCHANGED <<exportArgs, boundingBox, loopFrame, frames, showExportModal,
                   keyframes, joints, currentFrame, jointPositions, layer, transform,
                   storeVars, auxVars>>

\* img.onload of one layer: its promise resolves and the image is cached.
ImageLoaded ==
    /\ pc = "loading"
    /\ \E id \in loading :
        /\ imageCache' = (id :> Images[ImageDataOf(Captured.character, id)]) @@ imageCache
        /\ loading' = loading \ {id}
        /\ log' = Append(log, Event("loaded", 0, 0, id))
    /\ UNCHANGED <<exportArgs, boundingBox, loopFrame, frames, showExportModal, pc,
                   keyframes, joints, currentFrame, jointPositions, layer, transform,
                   storeVars, auxVars>>

CatchesLoadError_No == FALSE

\* try { ... await loadImage(...) } catch (e) { console.warn(...) }
CatchesLoadError == TRUE

\* img.onerror of one layer: its loadImage promise rejects.
ImageFailed ==
    /\ pc = "loading"
    /\ \E id \in loading :
        /\ loading' = loading \ {id}
        /\ log' = Append(log, Event("failed", 0, 0, id))
    /\ pc' = IF CatchesLoadError THEN pc ELSE "rejected"
    /\ UNCHANGED <<exportArgs, imageCache, boundingBox, loopFrame, frames, showExportModal,
                   keyframes, joints, currentFrame, jointPositions, layer, transform,
                   storeVars, auxVars>>

\* Promise.all has resolved: the bounding box is computed and the loop starts.
BeginRender ==
    /\ pc = "loading"
    /\ loading = {}
    /\ boundingBox' = calculateBoundingBox(Captured.character, imageCache)
    /\ frames' = <<>>
    /\ loopFrame' = 0
    /\ log' = Append(log, Event("box", 0, 0, Null))
    /\ pc' = "loop"
    /\ UNCHANGED <<exportArgs, loading, imageCache, showExportModal,
                   keyframes, joints, currentFrame, jointPositions, layer, transform,
                   storeVars, auxVars>>

LoopContinues_Inclusive(f, frameCount) == f <= frameCount

\* frame < motion.frameCount
LoopContinues(f, frameCount) == f < frameCount

\* { ...options, boundingBox }
CaptureOptions(options, box) ==
    [width |-> options.width, height |-> options.height,
     backgroundColor |-> options.backgroundColor, onProgress |-> options.onProgress,
     boundingBox |-> <<box>>]

\* frames.push(renderFrame(character, motion, frame, imageCache, {...}))
RenderFrame ==
    /\ pc = "loop"
    /\ LoopContinues(loopFrame, Captured.motion.frameCount)
    /\ LET options == CaptureOptions(Captured.options, boundingBox)
       IN  /\ frames' = Append(frames, renderFrame(Captured.character, Captured.motion,
                                                   loopFrame, imageCache, options))
           /\ log' = log
                     \o (IF options.boundingBox = <<>>
                         THEN <<Event("box", 0, 0, Null)>> ELSE <<>>)
                     \o <<Event("render", loopFrame, 0, Null)>>
    /\ pc' = "rendered"
    /\ UNCHANGED <<exportArgs, loading, imageCache, boundingBox, loopFrame, showExportModal,
                   keyframes, joints, currentFrame, jointPositions, layer, transform,
                   storeVars, auxVars>>

\* if (onProgress) onProgress(frame + 1, motion.frameCount); frame++
ReportProgress ==
    /\ pc = "rendered"
    /\ log' = IF Captured.options.onProgress
              THEN Append(log, Event("progress", loopFrame + 1,
                                     Captured.motion.frameCount, Null))
              ELSE log
    /\ loopFrame' = loopFrame + 1
    /\ pc' = "loop"
    /\ UNCHANGED <<exportArgs, loading, imageCache, boundingBox, frames, showExportModal,
                   keyframes, joints, currentFrame, jointPositions, layer, transform,
                   storeVars, auxVars>>

\* return frames
ReturnFrames ==
    /\ pc = "loop"
    /\ ~LoopContinues(loopFrame, Captured.motion.frameCount)
    /\ log' = Append(log, Event("resolve", Len(frames), 0, Null))
    /\ pc' = "done"
    /\ UNCHANGED <<exportArgs, loading, imageCache, boundingBox, loopFrame, frames,
                   showExportModal,
                   keyframes, joints, currentFrame, jointPositions, layer, transform,
                   storeVars, auxVars>>

LoopSuspends_EachFrame == TRUE

\* The loop body of captureAllFrames holds no await.
LoopSuspends == FALSE

\* The call is suspended at an await or has returned, so that the browser can
\* run another callback. The continuation after the last image settles runs
\* in the same microtask checkpoint as the settling.
Suspended ==
    \/ pc = "loading" /\ loading # {}
    \/ pc = "done"
    \/ LoopSuspends /\ pc \in {"loop", "rendered"}

\* The user closes the export modal (the overlay or the X button); this is
\* the only way the modal offers to give up an export.
CloseExportModal ==
    /\ Suspended
    /\ showExportModal
    /\ showExportModal' = FALSE
    /\ log' = Append(log, Event("close", 0, 0, Null))
    /\ UNCHANGED <<exportArgs, loading, imageCache, boundingBox, loopFrame, frames, pc,
                   keyframes, joints, currentFrame, jointPositions, layer, transform,
                   storeVars, auxVars>>

(***************************************************************************)
(* Frame capture: inputs                                                   *)
(***************************************************************************)
ExportLayer(id, order, imageData, visible, t) ==
    [id |-> id, order |-> order, imageData |-> imageData, visible |-> visible,
     opacity |-> 1, transform |-> t]

LA == ExportLayer("L1", 1, "a.png", TRUE, DefaultTransform)
LB == ExportLayer("L2", 0, "b.png", TRUE,
                  [x |-> 20, y |-> -7, rotation |-> 45, scaleX |-> 2, scaleY |-> 2])
LC == ExportLayer("L3", 2, Null, TRUE, DefaultTransform)
LD == ExportLayer("L4", 3, "a.png", FALSE, DefaultTransform)

\* No layer; two image layers stored against their order; a layer without
\* image between them; a hidden image layer.
ExportLayerLists == {<<>>, <<LA, LB>>, <<LA, LC, LB>>, <<LD, LA>>}

ExportCharacters ==
    {[id |-> "C1", name |-> "rig", originalImage |-> Null, processedImage |-> "png",
      layers |-> ls, joints |-> <<J1, J2>>, bones |-> <<>>] : ls \in ExportLayerLists}

StoredKeyframe(id, jointId, frameNumber, x, y, rotation) ==
    [id |-> id, jointId |-> jointId, frameNumber |-> frameNumber,
     x |-> x, y |-> y, rotation |-> rotation, easing |-> "linear"]

\* No keyframes, or joint J1 (bound to layer L1) moving over frames 0..2.
ExportTracks ==
    {<<>>,
     <<StoredKeyframe("K1", "J1", 0, 10, 20, 0), StoredKeyframe("K2", "J1", 2, 110, 60, -90)>>}

ExportMotions ==
    {[id |-> "M1", name |-> "walk", fps |-> 12, frameCount |-> n, loop |-> TRUE,
      keyframes |-> ks] : n \in 0..MaxFrameCount, ks \in ExportTracks}

ExportOptions ==
    {[width |-> 0, height |-> 0, backgroundColor |-> Null, onProgress |-> TRUE],
     [width |-> 48, height |-> 0, backgroundColor |-> "#fff", onProgress |-> TRUE],
     [width |-> 0, height |-> 0, backgroundColor |-> Null, onProgress |-> FALSE]}

\* handleExport is about to call captureAllFrames(character, currentMotion,
\* options) with the character and the motion of the store.
InitCapture ==
    /\ exportArgs \in [character : ExportCharacters, motion : ExportMotions,
                       options : ExportOptions]
    /\ character = exportArgs.character
    /\ currentMotion = exportArgs.motion
    /\ project = [id |-> "C1", name |-> "rig", saved |-> TRUE]
    /\ history = [past |-> <<>>, future |-> <<>>]
    /\ selection = [layers |-> <<>>, joints |-> <<>>, bones |-> <<>>, keyframes |-> <<>>]
    /\ timeline = [currentFrame |-> 0, isPlaying |-> FALSE, isLooping |-> TRUE]
    /\ currentStep = 3
    /\ nextId = 1
    /\ ops = 0
    /\ keyframes = <<>>
    /\ joints = <<>>
    /\ currentFrame = 0
    /\ jointPositions = <<>>
    /\ layer = NoLayer
    /\ transform = NoTransform
    /\ pc = "ready"
    /\ loading = {}
    /\ imageCache = <<>>
    /\ boundingBox = NoBox
    /\ loopFrame = 0
    /\ frames = <<>>
    /\ log = <<>>
    /\ showExportModal = TRUE
    /\ lerpCall = NoLerp
    /\ playback = NoPlayback

NextCapture ==
    \/ StartCapture
    \/ ImageLoaded
    \/ ImageFailed
    \/ BeginRender
    \/ RenderFrame
    \/ ReportProgress
    \/ ReturnFrames
    \/ CloseExportModal

SpecCapture == InitCapture /\ [][NextCapture]_vars

(***************************************************************************)
(* Properties of captureAllFrames                                          *)
(***************************************************************************)
ExportFrameCount == exportArgs.motion.frameCount

\* the events of the given kinds, in the order they ran
EventsOf(kinds) == SelectSeq(log, LAMBDA e : e.kind \in kinds)

\* render 0, progress (1, n), render 1, progress (2, n), ... as far as `upTo`
ExpectedEvents(upTo) ==
    IF exportArgs.options.onProgress
    THEN [i \in 1..upTo |->
            IF i % 2 = 1
            THEN Event("render", (i - 1) \div 2, 0, Null)
            ELSE Event("progress", i \div 2, ExportFrameCount, Null)]
    ELSE [i \in 1..upTo |-> Event("render", i - 1, 0, Null)]

ExpectedLength ==
    IF exportArgs.options.onProgress THEN 2 * ExportFrameCount ELSE ExportFrameCount

ExpectedFrame(i) ==
    renderFrame(exportArgs.character, exportArgs.motion, i, imageCache,
                CaptureOptions(exportArgs.options,
                               calculateBoundingBox(exportArgs.character, imageCache)))

\* C16: captureAllFrames renders the frames 0 .. frameCount-1 once each in
\* ascending order, calls onProgress(i+1, frameCount) right after frame i and
\* before frame i+1, and resolves with frameCount results, the i-th being the
\* rendering of frame i.
C16_FramesInOrder ==
    LET ran == EventsOf({"render", "progress"})
    IN  /\ Len(ran) <= ExpectedLength
        /\ ran = ExpectedEvents(Len(ran))
        /\ pc = "done" =>
             /\ Len(ran) = ExpectedLength
             /\ Len(frames) = ExportFrameCount
             /\ \A i \in 0..(ExportFrameCount - 1) : frames[i + 1] = ExpectedFrame(i)

\* Three frames of a moving rig were returned with progress reported.
C16_Witness ==
    /\ pc = "done"
    /\ ExportFrameCount = 3
    /\ exportArgs.options.onProgress
    /\ Len(frames) = 3
    /\ frames[1] # frames[2]
    /\ Len(EventsOf({"progress"})) = 3

Settled(id) == \E i \in DOMAIN log : log[i].kind \in {"loaded", "failed"} /\ log[i].id = id

\* C17: no frame is rendered until the image load of every layer that has
\* imageData has settled, and from the first rendered frame to the last no
\* other callback runs.
C17_LoadsBeforeLoopAndNoInterleaving ==
    /\ (\E i \in DOMAIN log : log[i].kind = "render")
         => \A id \in LayersToLoad(exportArgs.character) : Settled(id)
    /\ \A i, j, k \in DOMAIN log :
         (i < j /\ j < k /\ log[i].kind = "render" /\ log[k].kind = "render")
            => log[j].kind \in {"render", "progress"}

\* Two frames were rendered after one image loaded, one failed, and the modal
\* was closed while the images were loading.
C17_Witness ==
    /\ pc = "done"
    /\ Len(frames) >= 2
    /\ Len(EventsOf({"loaded"})) = 1
    /\ Len(EventsOf({"failed"})) = 1
    /\ \E i, k \in DOMAIN log : i < k /\ log[i].kind = "close" /\ log[k].kind = "render"

\* C18: once the abort signal is set during an export no further frame is
\* rendered, and the frames produced so far are discarded, not returned.
C18_AbortStopsExport ==
    \A i, j \in DOMAIN log :
        (i < j /\ log[i].kind = "close")
            => /\ log[j].kind # "render"
               /\ log[j].kind = "resolve" => log[j].n = 0

FailedLayers == {log[i].id : i \in {k \in DOMAIN log : log[k].kind = "failed"}}
LoadedLayers == {log[i].id : i \in {k \in DOMAIN log : log[k].kind = "loaded"}}
DrawnLayers(f) == {f.drawn[i].layerId : i \in DOMAIN f.drawn}
VisibleLayers ==
    {exportArgs.character.layers[i].id :
        i \in {k \in DOMAIN exportArgs.character.layers :
                 exportArgs.character.layers[k].visible}}

ResolvesDespiteFailures ==
    /\ pc # "rejected"
    /\ pc = "done" =>
         /\ Len(frames) = ExportFrameCount
         /\ \A i \in DOMAIN frames : DrawnLayers(frames[i]) \cap FailedLayers = {}

\* C19 as stated: with failed image loads captureAllFrames still resolves with
\* frameCount frames, no failed layer is drawn, and every layer whose image
\* loaded is drawn in every frame.
C19_FailedLayersSkipped_AnyLayer ==
    /\ ResolvesDespiteFailures
    /\ pc = "done" => \A i \in DOMAIN frames : LoadedLayers \subseteq DrawnLayers(frames[i])

\* C19: with failed image loads captureAllFrames still resolves with
\* frameCount frames, no failed layer is drawn, and every visible layer whose
\* image loaded is drawn in every frame.
C19_FailedLayersSkipped ==
    /\ ResolvesDespiteFailures
    /\ pc = "done" =>
         \A i \in DOMAIN frames : LoadedLayers \cap VisibleLayers \subseteq DrawnLayers(frames[i])

\* The image of L1 failed, the image of L2 loaded, and the frames show L2 only.
C19_Witness ==
    /\ pc = "done"
    /\ FailedLayers = {"L1"}
    /\ LoadedLayers = {"L2"}
    /\ Len(frames) >= 2
    /\ \A i \in DOMAIN frames : DrawnLayers(frames[i]) = {"L2"}

\* C20: within one call the bounding box is computed exactly once, from rest
\* data only, and every frame has the same canvas width, the same canvas
\* height and the origin translation (-box.x, -box.y), whatever the pose.
C20_OneBoxForAllFrames ==
    LET box == calculateBoundingBox(exportArgs.character, imageCache)
    IN  /\ Len(EventsOf({"box"})) <= 1
        /\ frames # <<>> =>
             /\ Len(EventsOf({"box"})) = 1
             /\ boundingBox = box
             /\ \A i \in DOMAIN frames :
                  /\ frames[i].width = frames[1].width
                  /\ frames[i].height = frames[1].height
                  /\ frames[i].translate = <<RSub(R(0), box.x), RSub(R(0), box.y)>>
                  /\ exportArgs.options.width = 0 => frames[i].width = CanvasSize(box.width)
                  /\ exportArgs.options.height = 0 => frames[i].height = CanvasSize(box.height)

\* Three frames in which layer L1 follows joint J1 share one box.
C20_Witness ==
    /\ pc = "done"
    /\ Len(frames) = 3
    /\ "L1" \in LoadedLayers
    /\ frames[1].drawn # frames[3].drawn
    /\ frames[1].translate = frames[3].translate
    /\ exportArgs.options.width = 0

(***************************************************************************)
(* The editor store: layer updates and motion settings                     *)
(***************************************************************************)
updateLayer(layerId, updates) ==
    /\ ops < MaxOps
    /\ character' =
        [character EXCEPT
            !.layers = [i \in DOMAIN @ |->
                          IF @[i].id = layerId THEN Merge(@[i], updates) ELSE @[i]]]
    /\ ops' = ops + 1
    /\ UNCHANGED <<currentMotion, project, history, selection, timeline, currentStep,
                   nextId, evalVars>>

reorderLayers(newOrder) ==
    /\ ops < MaxOps
    /\ history' = saveSnapshot
    /\ project' = Saved
    /\ character' = [character EXCEPT !.layers = newOrder]
    /\ ops' = ops + 1
    /\ UNCHANGED <<currentMotion, selection, timeline, currentStep, nextId, evalVars>>

setFps(fps) ==
    /\ ops < MaxOps
    /\ currentMotion' = [currentMotion EXCEPT !.fps = fps]
    /\ ops' = ops + 1
    /\ UNCHANGED <<character, project, history, selection, timeline, currentStep,
                   nextId, evalVars>>

setFrameCount(frameCount) ==
    /\ ops < MaxOps
    /\ currentMotion' = [currentMotion EXCEPT !.frameCount = frameCount]
    /\ ops' = ops + 1
    /\ UNCHANGED <<character, project, history, selection, timeline, currentStep,
                   nextId, evalVars>>

\* Math.max(0, Math.min(frame, frameCount - 1))
ClampFrame(f, frameCount) == Max({0, Min({f, frameCount - 1})})

setCurrentFrame(f) ==
    /\ ops < MaxOps
    /\ timeline' = [timeline EXCEPT !.currentFrame = ClampFrame(f, currentMotion.frameCount)]
    /\ ops' = ops + 1
    /\ UNCHANGED <<character, currentMotion, project, history, selection, currentStep,
                   nextId, evalVars>>

(***************************************************************************)
(* Frame capture with the editor running                                   *)
(***************************************************************************)
\* A store edit made from an event handler while the export awaits its images.
EditDuringExport ==
    /\ pc = "loading"
    /\ Suspended
    /\ \/ addKeyframe("J1", 1, [x |-> 5, y |-> 7])
       \/ updateJoint("J1", [x |-> 1, y |-> 2])
       \/ updateLayer("L1", [visible |-> FALSE])
       \/ removeJoint("J1")
       \/ setFrameCount(1)

\* The canvas evaluates the pose of the store's character at the current frame.
LivePreview ==
    /\ pc = "loading"
    /\ Suspended
    /\ jointPositions' =
         getAllJointPositionsAtFrame(character.joints, timeline.currentFrame,
                                     currentMotion.keyframes)
    /\ UNCHANGED <<keyframes, joints, currentFrame, layer, transform, pc, captureVars,
                   storeVars>>

\* An export of the two-layer rig with its moving track, two frames or more.
InitCaptureEdits ==
    /\ InitCapture
    /\ exportArgs.character.layers = <<LA, LB>>
    /\ exportArgs.motion.keyframes # <<>>
    /\ exportArgs.motion.frameCount >= 2
    /\ exportArgs.options.width = 0

NextCaptureEdits ==
    \/ StartCapture
    \/ ImageLoaded
    \/ ImageFailed
    \/ BeginRender
    \/ RenderFrame
    \/ ReportProgress
    \/ ReturnFrames
    \/ EditDuringExport
    \/ LivePreview

SpecCaptureEdits == InitCaptureEdits /\ [][NextCaptureEdits]_vars

LayerOrder(id) ==
    exportArgs.character.layers[
        Min({i \in DOMAIN exportArgs.character.layers :
                exportArgs.character.layers[i].id = id})].order

\* C22: every rendered frame draws exactly the layers that are visible and
\* have a loaded image, each once, in ascending order of `order`, whatever
\* their position in character.layers.
C22_DrawnInOrder ==
    \A f \in DOMAIN frames :
        LET drawn == frames[f].drawn
        IN  /\ DrawnLayers(frames[f]) = VisibleLayers \cap DOMAIN imageCache
            /\ \A i, j \in DOMAIN drawn :
                 i < j => /\ drawn[i].layerId # drawn[j].layerId
                          /\ LayerOrder(drawn[i].layerId) <= LayerOrder(drawn[j].layerId)

\* Layer L2 (order 0) is stored after layer L1 (order 1) and drawn before it.
C22_Witness ==
    /\ pc = "done"
    /\ exportArgs.character.layers = <<LA, LC, LB>>
    /\ Len(frames) >= 1
    /\ Len(frames[1].drawn) = 2
    /\ frames[1].drawn[1].layerId = "L2"
    /\ frames[1].drawn[2].layerId = "L1"


(***************************************************************************)
(* lerp at and beyond the ends of the interval, in double arithmetic       *)
(***************************************************************************)
LerpValues == {FInt(-5), FDec(-18, 10), FDec(1, 10), FDec(3, 10), FInt(3), FDec(2025, 100)}
LerpTimes == {FInt(-1), FDec(-5, 10), FZero, F1, FDec(15, 10), FInt(2)}

CallLerp ==
    /\ ~lerpCall.called
    /\ \E start \in LerpValues, end \in LerpValues, t \in LerpTimes,
          easing \in EasingNames \cup {"custom"} :
          lerpCall' = [called |-> TRUE, start |-> start, end |-> end, t |-> t,
                       easing |-> easing, result |-> lerp_f64(start, end, t, easing)]
    /\ UNCHANGED <<keyframes, joints, currentFrame, jointPositions, layer, transform, pc,
                   exportArgs, loading, imageCache, boundingBox, loopFrame, frames, log,
                   showExportModal, playback, storeVars>>

InitLerp == InitStore

SpecLerp == InitLerp /\ [][CallLerp]_vars

\* C23: lerp returns exactly start for every t <= 0 and exactly end for every
\* t >= 1, whatever the easing.
C23_ExactEndpoints ==
    lerpCall.called =>
        /\ (~FLess(FZero, lerpCall.t) => lerpCall.result = lerpCall.start)
        /\ (~FLess(lerpCall.t, F1) => lerpCall.result = lerpCall.end)

(***************************************************************************)
(* The pose evaluator on tracks with repeated frame numbers                *)
(***************************************************************************)
\* Three keyframes of one joint in any order of storage, two or three of them
\* at the same frame number in most of the tracks.
DuplicateFrameTracks ==
    {<<Keyframe("J1", f1, 0, 0, 0, e),
       Keyframe("J1", f2, 100, 40, -90, e),
       Keyframe("J1", f3, 7, 7, 30, e)>> :
        f1 \in 0..MaxFrame, f2 \in 0..MaxFrame, f3 \in 0..MaxFrame, e \in TrackEasings}

InitPoseDuplicates ==
    /\ keyframes \in Tracks \cup Scenarios \cup DuplicateFrameTracks
    /\ joints \in JointLists
    /\ currentFrame = 0
    /\ jointPositions = <<>>
    /\ layer = NoLayer
    /\ transform = NoTransform
    /\ pc = "input"
    /\ initialState
    /\ captureIdle

SpecPoseDuplicates == InitPoseDuplicates /\ [][PoseAt]_vars

\* the joint's pose at currentFrame comes from the interpolation branch
Interpolated(jointId) ==
    LET jointKeyframes == KeyframesOfJoint(keyframes, jointId)
    IN  /\ Len(jointKeyframes) > 0
        /\ ~BeforeFirst(currentFrame, jointKeyframes[1])
        /\ ~AfterLast(currentFrame, jointKeyframes[Len(jointKeyframes)])

SelectedPair(jointId) == FindSegment(KeyframesOfJoint(keyframes, jointId), currentFrame)

SelectedProgress(jointId) ==
    Progress(SelectedPair(jointId).prevKeyframe, SelectedPair(jointId).nextKeyframe,
             currentFrame)

\* C24: on every track, tracks with several keyframes of a joint at one
\* frame number included, and at every frame, the evaluation raises nothing,
\* and where it interpolates, the progress of the selected pair is 0 when the
\* pair's frame numbers are equal and lies in [0, 1) otherwise.
C24_ProgressWellDefined ==
    pc = "posed" =>
        \A i \in DOMAIN joints :
            /\ "error" \notin DOMAIN jointPositions[joints[i].id]
            /\ Interpolated(joints[i].id) =>
                IF SelectedPair(joints[i].id).nextKeyframe.frameNumber
                       = SelectedPair(joints[i].id).prevKeyframe.frameNumber
                THEN SelectedProgress(joints[i].id) = R(0)
                ELSE /\ ~RLess(SelectedProgress(joints[i].id), R(0))
                     /\ RLess(SelectedProgress(joints[i].id), R(1))

\* Keyframes at frames 0, 2, 2 with different values, evaluated at frame 1.
C24_Witness ==
    /\ pc = "posed"
    /\ currentFrame = 1
    /\ keyframes = <<Keyframe("J1", 2, 0, 0, 0, "easeIn"),
                     Keyframe("J1", 0, 100, 40, -90, "easeIn"),
                     Keyframe("J1", 2, 7, 7, 30, "easeIn")>>
    /\ Interpolated("J1")
    /\ SelectedProgress("J1") = <<1, 2>>
    /\ jointPositions["J1"].x = <<75, 1>>

(***************************************************************************)
(* Local JSON save and load                                                *)
(***************************************************************************)
\* getCharacterData(): the saved form of the character. The layers, joints
\* and bones are written without an id (Null stands for the missing field),
\* the references parent_id, layer_id, start_joint_id and end_joint_id are
\* written as they are.
getCharacterData ==
    [id |-> Null,
     name |-> StrOr(character.name, StrOr(project.name, "unsaved character")),
     original_image |-> character.originalImage,
     processed_image |-> character.processedImage,
     layers |-> [i \in DOMAIN character.layers |->
                    [id |-> Null,
                     order |-> character.layers[i].order,
                     image_data |-> character.layers[i].imageData,
                     visible |-> character.layers[i].visible,
                     opacity |-> character.layers[i].opacity,
                     transform |-> character.layers[i].transform]],
     joints |-> [i \in DOMAIN character.joints |->
                    [id |-> Null,
                     x |-> character.joints[i].x,
                     y |-> character.joints[i].y,
                     parent_id |-> character.joints[i].parentId,
                     layer_id |-> character.joints[i].layerId]],
     bones |-> [i \in DOMAIN character.bones |->
                    [id |-> Null,
                     start_joint_id |-> character.bones[i].startJointId,
                     end_joint_id |-> character.bones[i].endJointId]]]

\* getMotionData(): the saved form of the motion, keyframes without an id.
getMotionData ==
    [id |-> Null,
     name |-> currentMotion.name,
     fps |-> currentMotion.fps,
     frame_count |-> currentMotion.frameCount,
     loop |-> currentMotion.loop,
     keyframes |-> [i \in DOMAIN currentMotion.keyframes |->
                       [id |-> Null,
                        joint_id |-> currentMotion.keyframes[i].jointId,
                        frame_number |-> currentMotion.keyframes[i].frameNumber,
                        x |-> currentMotion.keyframes[i].x,
                        y |-> currentMotion.keyframes[i].y,
                        rotation |-> currentMotion.keyframes[i].rotation,
                        easing |-> currentMotion.keyframes[i].easing]]]

\* exportProjectAsJSON(), given by what JSON.parse makes of the string.
exportProjectAsJSON ==
    [parses |-> TRUE,
     character |-> <<getCharacterData>>,
     motion |-> <<getMotionData>>,
     project |-> <<project>>]

\* The project is saved to a file and the file is loaded again.
ExportThenImport == importProjectFromJSON(JSONClone(exportProjectAsJSON))

\* A rig is edited, saved and loaded.
NextRoundTrip ==
    \/ AddKeyframeOfJoint
    \/ UpdateJoint
    \/ AddBone
    \/ ExportThenImport

SpecRoundTrip == InitRig /\ [][NextRoundTrip]_vars

\* The place in items of the item a reference names, 0 when it names none.
IndexOfId(items, id) == Find({i \in DOMAIN items : items[i].id = id})

\* The pose of the i-th joint at a frame.
PoseOfJoint(js, kfs, i, f) == getJointPositionAtFrame(js[i].id, f, kfs, js[i])

\* The character and motion after a step are the ones before it up to the
\* renaming of ids: the same items in the same places, every reference
\* naming the item in the place it named before, every pose the same.
RoundTripRestored ==
    /\ Len(character'.layers) = Len(character.layers)
    /\ Len(character'.joints) = Len(character.joints)
    /\ Len(character'.bones) = Len(character.bones)
    /\ Len(currentMotion'.keyframes) = Len(currentMotion.keyframes)
    /\ \A b \in DOMAIN character.bones :
        /\ IndexOfId(character'.joints, character'.bones[b].startJointId)
             = IndexOfId(character.joints, character.bones[b].startJointId)
        /\ IndexOfId(character'.joints, character'.bones[b].endJointId)
             = IndexOfId(character.joints, character.bones[b].endJointId)
    /\ \A j \in DOMAIN character.joints :
        IndexOfId(character'.layers, character'.joints[j].layerId)
          = IndexOfId(character.layers, character.joints[j].layerId)
    /\ \A k \in DOMAIN currentMotion.keyframes :
        IndexOfId(character'.joints, currentMotion'.keyframes[k].jointId)
          = IndexOfId(character.joints, currentMotion.keyframes[k].jointId)
    /\ \A j \in DOMAIN character.joints, f \in 0..MaxFrame :
        PoseOfJoint(character'.joints, currentMotion'.keyframes, j, f)
          = PoseOfJoint(character.joints, currentMotion.keyframes, j, f)

\* C25: loading the string that exportProjectAsJSON returned yields the
\* exported character and motion up to the renaming of ids, with every bone
\* endpoint, joint layerId and keyframe jointId naming the restored
\* counterpart of what it named, and every joint posed as before.
C25_RoundTrip == [][ExportThenImport => RoundTripRestored]_vars

(***************************************************************************)
(* Undo and redo of the snapshotting operations                            *)
(***************************************************************************)
\* reorderLayers as the layer panel calls it: two neighbours exchanged.
ReorderLayers ==
    \E i \in 1..(Len(character.layers) - 1) :
        reorderLayers([k \in DOMAIN character.layers |->
                          IF k = i THEN character.layers[i + 1]
                          ELSE IF k = i + 1 THEN character.layers[i]
                          ELSE character.layers[k]])

\* The operations as the panels call them on what the store holds.
AddImageLayer == ops < MaxOps /\ addLayer([imageData |-> "png"])

RemoveStoredLayer ==
    ops < MaxOps /\ \E layerId \in IdsOf(StoreLayers) : removeLayer(layerId)

RemoveStoredJoint == \E jointId \in IdsOf(StoreJoints) : removeJoint(jointId)

AddBoneDownward ==
    \E i \in DOMAIN StoreJoints, k \in DOMAIN StoreJoints :
        i < k /\ addBone(StoreJoints[i].id, StoreJoints[k].id)

RemoveStoredBone == \E boneId \in IdsOf(StoreBones) : removeBone(boneId)

AddKeyframeAtEnds ==
    \E jointId \in IdsOf(StoreJoints), frameNumber \in {0, MaxFrame} :
        addKeyframe(jointId, frameNumber, [x |-> 5, y |-> 7])

RemoveStoredKeyframe ==
    \E k \in DOMAIN currentMotion.keyframes :
        removeKeyframe(currentMotion.keyframes[k].id)

\* Every operation that takes a snapshot, with undo and redo.
NextHistory ==
    \/ AddImageLayer
    \/ RemoveStoredLayer
    \/ ReorderLayers
    \/ AddJoint
    \/ RemoveStoredJoint
    \/ AddBoneDownward
    \/ RemoveStoredBone
    \/ AddKeyframeAtEnds
    \/ RemoveStoredKeyframe
    \/ undo
    \/ redo

SpecHistory == InitRig /\ [][NextHistory]_vars

\* A step of one of the snapshotting operations; addBone and addKeyframe
\* count when they made a new bone or keyframe.
SnapshottingOp ==
    \/ AddImageLayer
    \/ RemoveStoredLayer
    \/ ReorderLayers
    \/ AddJoint
    \/ RemoveStoredJoint
    \/ AddBoneDownward /\ Len(character'.bones) > Len(character.bones)
    \/ RemoveStoredBone
    \/ AddKeyframeAtEnds
         /\ Len(currentMotion'.keyframes) > Len(currentMotion.keyframes)
    \/ RemoveStoredKeyframe

\* The snapshot of the state a step leads to.
SnapshotAfter ==
    [character |-> JSONClone(character'), currentMotion |-> JSONClone(currentMotion')]

\* undo() called in the state a step leads to, and redo() called after it.
UndoAfter == Undone(history', SnapshotAfter)
RedoAfterUndo ==
    Redone(UndoAfter.history,
           [character |-> JSONClone(UndoAfter.character),
            currentMotion |-> JSONClone(UndoAfter.currentMotion)])

\* C26: after a snapshotting operation (addLayer, removeLayer, reorderLayers,
\* addJoint, removeJoint, addBone of a new pair, removeBone, addKeyframe of a
\* new keyframe, removeKeyframe), undo can run and gives character and
\* currentMotion exactly their values before the operation, and redo can run
\* after it and gives them exactly their values after the operation.
C26_UndoRedoRestore ==
    [][SnapshottingOp =>
        /\ Len(history'.past) > 0
        /\ UndoAfter.character = character
        /\ UndoAfter.currentMotion = currentMotion
        /\ Len(UndoAfter.history.future) > 0
        /\ RedoAfterUndo.character = character'
        /\ RedoAfterUndo.currentMotion = currentMotion']_vars

\* addJoint, undo and redo have run on the rig: the joint is back, and undo
\* would take it away again.
C26_Witness ==
    /\ ops = 3
    /\ nextId = 2
    /\ Len(character.joints) = 4
    /\ character.joints[4].id = "u1"
    /\ history.future = <<>>
    /\ Len(history.past) = 1
    /\ Len(history.past[1].character.joints) = 3

(***************************************************************************)
(* Timeline playback                                                       *)
(***************************************************************************)
\* The playback effect of the Timeline, run after a render in which one of
\* its dependencies (isPlaying, isLooping, fps, frameCount) changed: the
\* cleanup clears the old interval, and while playing a new interval is set
\* whose callback closes over the timeline and motion of that render.
PlaybackEffect(tl, motion) ==
    IF tl.isPlaying
    THEN [timer |-> TRUE, currentFrame |-> tl.currentFrame,
          frameCount |-> motion.frameCount, isLooping |-> tl.isLooping]
    ELSE NoPlayback

togglePlay ==
    /\ ops < MaxOps
    /\ timeline' = [timeline EXCEPT !.isPlaying = ~timeline.isPlaying]
    /\ playback' = PlaybackEffect(timeline', currentMotion)
    /\ ops' = ops + 1
    /\ UNCHANGED <<keyframes, joints, currentFrame, jointPositions, layer, transform, pc,
                   exportArgs, loading, imageCache, boundingBox, loopFrame, frames, log,
                   showExportModal, lerpCall, character, currentMotion, project, history,
                   selection, currentStep, nextId>>

toggleLoop ==
    /\ ops < MaxOps
    /\ timeline' = [timeline EXCEPT !.isLooping = ~timeline.isLooping]
    /\ playback' = PlaybackEffect(timeline', currentMotion)
    /\ ops' = ops + 1
    /\ UNCHANGED <<keyframes, joints, currentFrame, jointPositions, layer, transform, pc,
                   exportArgs, loading, imageCache, boundingBox, loopFrame, frames, log,
                   showExportModal, lerpCall, character, currentMotion, project, history,
                   selection, currentStep, nextId>>

\* The FPS and frame-count selectors of the Timeline: setFps(value) and
\* setFrameCount(value), then the playback effect.
onChangeFps ==
    /\ ops < MaxOps
    /\ \E fps \in {6, 24} : currentMotion' = [currentMotion EXCEPT !.fps = fps]
    /\ playback' = PlaybackEffect(timeline, currentMotion')
    /\ ops' = ops + 1
    /\ UNCHANGED <<keyframes, joints, currentFrame, jointPositions, layer, transform, pc,
                   exportArgs, loading, imageCache, boundingBox, loopFrame, frames, log,
                   showExportModal, lerpCall, character, timeline, project, history,
                   selection, currentStep, nextId>>

onChangeFrameCount ==
    /\ ops < MaxOps
    /\ \E n \in 1..MaxFrameCount :
        currentMotion' = [currentMotion EXCEPT !.frameCount = n]
    /\ playback' = PlaybackEffect(timeline, currentMotion')
    /\ ops' = ops + 1
    /\ UNCHANGED <<keyframes, joints, currentFrame, jointPositions, layer, transform, pc,
                   exportArgs, loading, imageCache, boundingBox, loopFrame, frames, log,
                   showExportModal, lerpCall, character, timeline, project, history,
                   selection, currentStep, nextId>>

\* The frame the interval callback passes to setCurrentFrame, computed from
\* the timeline and motion it closed over.
TickFrame ==
    IF playback.currentFrame >= playback.frameCount - 1
    THEN (IF playback.isLooping THEN 0 ELSE playback.frameCount - 1)
    ELSE playback.currentFrame + 1

\* One tick of the interval.
Tick ==
    /\ playback.timer
    /\ setCurrentFrame(TickFrame)

\* The user clicks a frame of the ruler.
ClickFrame == \E f \in 0..(MaxFrameCount - 1) : setCurrentFrame(f)

\* The store after construction, the motion with one frame or more.
InitPlayback ==
    /\ keyframes = <<>>
    /\ joints = <<>>
    /\ currentFrame = 0
    /\ jointPositions = <<>>
    /\ layer = NoLayer
    /\ transform = NoTransform
    /\ pc = "store"
    /\ captureIdle
    /\ character = InitialCharacter
    /\ \E n \in 1..MaxFrameCount : currentMotion = [InitialMotion EXCEPT !.frameCount = n]
    /\ project = InitialProject
    /\ history = [past |-> <<>>, future |-> <<>>]
    /\ selection = [layers |-> <<>>, joints |-> <<>>, bones |-> <<>>, keyframes |-> <<>>]
    /\ timeline = [currentFrame |-> 0, isPlaying |-> FALSE, isLooping |-> TRUE]
    /\ currentStep = 1
    /\ nextId = 1
    /\ ops = 0

NextPlayback ==
    \/ togglePlay
    \/ toggleLoop
    \/ Tick
    \/ ClickFrame
    \/ onChangeFps
    \/ onChangeFrameCount

SpecPlayback == InitPlayback /\ [][NextPlayback]_vars

\* The frame after the store's current frame: the next one, or from the last
\* frame 0 when looping and the last frame when not.
FrameAfter(tl, motion) ==
    IF tl.currentFrame >= motion.frameCount - 1
    THEN (IF tl.isLooping THEN 0 ELSE motion.frameCount - 1)
    ELSE tl.currentFrame + 1

\* C27: while the timeline is playing, every tick of the playback timer sets
\* currentFrame to the store's current frame plus one, or from the last frame
\* to 0 when looping is on, and keeps it at the last frame when looping is off.
C27_TickAdvances ==
    [][(timeline.isPlaying /\ Tick) =>
          timeline'.currentFrame = FrameAfter(timeline, currentMotion)]_vars

(***************************************************************************)
(* Edits after an undo                                                     *)
(***************************************************************************)
\* A step that changes character or currentMotion and is not undo or redo.
EditStep ==
    /\ character' # character \/ currentMotion' # currentMotion
    /\ ~undo
    /\ ~redo

\* C28: every change to character or currentMotion made after an undo,
\* updateJoint and addKeyframe on an existing keyframe included, empties
\* history.future, so that redo cannot bring back a snapshot without it.
C28_EditEmptiesFuture == [][EditStep => history'.future = <<>>]_vars

(***************************************************************************)
(* The current frame and the frame count                                   *)
(***************************************************************************)
SetCurrentFrame == \E f \in (-1)..MaxFrameCount : setCurrentFrame(f)

SetFrameCount == \E n \in 1..MaxFrameCount : setFrameCount(n)

\* The timeline with the operations that change the frame count.
NextTimeline ==
    \/ SetCurrentFrame
    \/ SetFrameCount
    \/ LoadMotion
    \/ AddKeyframe
    \/ undo
    \/ redo

SpecTimeline == InitStore /\ [][NextTimeline]_vars

\* C29: after any sequence of setCurrentFrame, setFrameCount, loadMotion,
\* undo and redo, timeline.currentFrame is an integer from 0 to
\* currentMotion.frameCount - 1.
C29_FrameInRange ==
    timeline.currentFrame \in 0..(currentMotion.frameCount - 1)

(***************************************************************************)
(* Loading a project file                                                  *)
(***************************************************************************)
\* Files whose data holds a null: among the keyframes, or among the joints.
BrokenMotion == SavedMotion(<<SavedKeyframe("J1", 0, 1), JsNull>>)
BrokenCharacter == [SavedCharacter EXCEPT !.joints = <<JsNull>>]

FileInputs ==
    JsonInputs
    \cup {[parses |-> TRUE, character |-> <<SavedCharacter>>, motion |-> <<BrokenMotion>>,
           project |-> <<[name |-> "demo"]>>],
          [parses |-> TRUE, character |-> <<>>, motion |-> <<BrokenMotion>>,
           project |-> <<[name |-> "demo"]>>],
          [parses |-> TRUE, character |-> <<BrokenCharacter>>,
           motion |-> <<SavedMotion(<<>>)>>, project |-> <<[name |-> "demo"]>>]}

\* handleFileChange: the chosen file is read and imported.
handleFileChange == \E data \in FileInputs : importProjectFromJSON(data)

NextFiles == handleFileChange \/ AddKeyframe

SpecFiles == InitStore /\ [][NextFiles]_vars

\* An import that returned false.
FailedImport ==
    \E data \in FileInputs : ~importReturns(data) /\ importProjectFromJSON(data)

\* C30: whenever importProjectFromJSON returns false, character,
\* currentMotion and project are what they were before the call.
C30_FailedImportChangesNothing ==
    [][FailedImport => UNCHANGED <<character, currentMotion, project>>]_vars

====
